---------------------------- MODULE Spec2Model ----------------------------
(***************************************************************************)
(* A model of the graph execution engine of the studio repository:         *)
(*   - the event channel (src/lib/runtime.ts: createSession, enqueue,      *)
(*     dequeueBatch) over its two backends, the in-process Map and the     *)
(*     remote list store;                                                  *)
(*   - the dispatcher (src/lib/runtime.ts: executeGraph, and the earlier   *)
(*     variant kept in src/app/api/llm/route.ts);                          *)
(*   - the external step adapter (src/unnamed/part_000: POST);             *)
(*   - the stream reader (src/unnamed/part_004: GET).                      *)
(* Every await of the source is a scheduling point: an action is the code  *)
(* that runs between two awaits of one task.                               *)
(***************************************************************************)
EXTENDS Integers, Sequences, FiniteSets, TLC

(***************************************************************************)
(* Bounds of the model.                                                    *)
(***************************************************************************)
MaxRuns == 2            \* executeGraph calls in one behaviour
MaxEdges == 3           \* edges of a submitted graph
MaxSysEdges == 1        \* edges of a graph submitted with external steps
MaxExternal == 1        \* LLM nodes of a graph submitted with external steps
MaxTokens == 2          \* tokens one streamed answer delivers
MaxCalls == 2           \* tool calls one plan requests
MaxEnqueued == 3        \* events an abstract producer enqueues
MaxBatch == 2           \* the max argument of a raw dequeueBatch call
NumConsumers == 2       \* tasks that may call dequeueBatch

Min(a, b) == IF a < b THEN a ELSE b

Runs == 1 .. MaxRuns
Consumers == 1 .. NumConsumers

(***************************************************************************)
(* Session ids.  createSession returns a fresh id out of SessionIds;       *)
(* StrayId is an id no createSession ever returned (a client may still     *)
(* name it in a request).                                                  *)
(***************************************************************************)
SessionIds == {"s1", "s2"}
StrayId == "s0"
AllSids == SessionIds \cup {StrayId}

(***************************************************************************)
(* Events.  type Event = {type, node?, message?, patch?, metrics?}.  An    *)
(* absent node is "", patch.status is status ("" for none) and data holds  *)
(* the rest of the payload as a sequence of strings (a tool result, the    *)
(* tokens of a partial answer).                                            *)
(***************************************************************************)
Evt(t, n, s, d) == [type |-> t, node |-> n, status |-> s, data |-> d]
NodeEnter(n) == Evt("node_enter", n, "", <<>>)
Patch(n, s, d) == Evt("state_patch", n, s, d)
SysPatch == Evt("state_patch", "sys", "", <<>>)
DoneEvt == Evt("done", "", "", <<>>)

(***************************************************************************)
(* JSON.stringify / JSON.parse of the remote backend.  JSON has no NaN and *)
(* no Infinity: stringify writes them as null.  The text is modelled as a  *)
(* record wrapping the value that the text denotes.                        *)
(***************************************************************************)
JSONValue(s) == IF s \in {"NaN", "Infinity", "-Infinity"} THEN "null" ELSE s
JSONstringify(evt) ==
  [json |-> [evt EXCEPT !.data = [i \in 1 .. Len(evt.data) |-> JSONValue(evt.data[i])]]]
JSONparse(raw) == raw.json

VARIABLES
  hasKV,      \* configuration: the remote backend is selected
  guarded,    \* configuration: executeGraph of lib/runtime.ts (try/catch and
              \* timeout around the fetch) with the adapter of part_000 and
              \* the stream reader of part_004, or the earlier executeGraph
              \* and adapter kept in api/llm/route.ts with the earlier
              \* reader of api/stream/route.ts
  SESSIONS,   \* the in-process Map: session id -> queue
  kvQueue,    \* remote lists studio:queue:<sid> (a missing key is the empty list)
  kvSession,  \* remote markers studio:sessions:<sid> that exist
  created,    \* history: ids createSession has returned
  log,        \* history: per session, the events the channel accepted, in order,
              \* each with its producer and run
  deq,        \* per consumer, the frame of its dequeueBatch call
  taken,      \* history: per session, the batches dequeueBatch has returned
  run,        \* per run, the frame of its executeGraph call
  adapter,    \* the adapter invocations, keyed by <<run, node>>
  reader      \* per consumer, the frame of its stream GET handler

chanVars == <<SESSIONS, kvQueue, kvSession, created, log>>
vars == <<hasKV, guarded, SESSIONS, kvQueue, kvSession, created, log, deq, taken,
          run, adapter, reader>>

(***************************************************************************)
(* The event channel.                                                      *)
(***************************************************************************)
LogEntry(evt, by, r) == [evt |-> evt, by |-> by, run |-> r]

\* What enqueue does to the stores; by and r only tag the history.
enqueue(sessionId, evt, by, r) ==
  IF hasKV
  THEN \* kv.rpush creates the list when the key is missing; kv.expire renews
       \* the marker's TTL when the marker exists and creates none.
       /\ kvQueue' = [kvQueue EXCEPT ![sessionId] = Append(@, JSONstringify(evt))]
       /\ log' = [log EXCEPT ![sessionId] = Append(@, LogEntry(evt, by, r))]
       /\ UNCHANGED <<SESSIONS, kvSession, created>>
  ELSE IF sessionId \in DOMAIN SESSIONS
       THEN /\ SESSIONS' = [SESSIONS EXCEPT ![sessionId] = Append(@, evt)]
            /\ log' = [log EXCEPT ![sessionId] = Append(@, LogEntry(evt, by, r))]
            /\ UNCHANGED <<kvQueue, kvSession, created>>
       ELSE UNCHANGED chanVars

\* POST /api/sessions: createSession with a fresh random id.
createSession(id) ==
  /\ id \in SessionIds \ created
  /\ created' = created \cup {id}
  /\ IF hasKV
     THEN kvSession' = kvSession \cup {id} /\ UNCHANGED SESSIONS
     ELSE SESSIONS' = (id :> <<>>) @@ SESSIONS /\ UNCHANGED kvSession
  /\ UNCHANGED <<hasKV, guarded, kvQueue, log, deq, taken, run, adapter, reader>>

\* The marker's one hour TTL runs out.
MarkerExpires(id) ==
  /\ hasKV
  /\ id \in kvSession
  /\ kvSession' = kvSession \ {id}
  /\ UNCHANGED <<hasKV, guarded, SESSIONS, kvQueue, created, log, deq, taken, run,
                 adapter, reader>>

IdleFrame == [pc |-> "idle", sid |-> StrayId, max |-> 0, i |-> 0, events |-> <<>>,
              len0 |-> 0]

QueueOf(sid) ==
  IF hasKV THEN [i \in 1 .. Len(kvQueue[sid]) |-> JSONparse(kvQueue[sid][i])]
  ELSE IF sid \in DOMAIN SESSIONS THEN SESSIONS[sid] ELSE <<>>

\* The stores and the frame after consumer c calls dequeueBatch(sid, max):
\* the whole call in memory, up to the first await kv.lpop remotely.
dequeueBatchCall(c, sid, max) ==
  LET frame == [IdleFrame EXCEPT !.sid = sid, !.max = max, !.len0 = Len(QueueOf(sid))]
  IN IF hasKV
     THEN /\ deq' = [deq EXCEPT ![c] =
                       [frame EXCEPT !.pc = IF 0 < max THEN "popping" ELSE "got"]]
          /\ UNCHANGED chanVars
     ELSE IF sid \notin DOMAIN SESSIONS
          THEN /\ deq' = [deq EXCEPT ![c] = [frame EXCEPT !.pc = "got"]]
               /\ UNCHANGED chanVars
          ELSE LET q == SESSIONS[sid]
                   n == Min(IF max < 0 THEN 0 ELSE max, Len(q))
               IN /\ deq' = [deq EXCEPT ![c] =
                               [frame EXCEPT !.pc = "got", !.events = SubSeq(q, 1, n)]]
                  /\ SESSIONS' = [SESSIONS EXCEPT ![sid] = SubSeq(q, n + 1, Len(q))]
                  /\ UNCHANGED <<kvQueue, kvSession, created, log>>

\* A faulty lpop that reads the head of the list and leaves it there.
lpopReturns_peek(c) ==
  LET f == deq[c]
      q == kvQueue[f.sid]
  IN /\ f.pc = "popping"
     /\ IF q = <<>>
        THEN deq' = [deq EXCEPT ![c].pc = "got"]
        ELSE deq' = [deq EXCEPT ![c] =
                       [f EXCEPT !.events = Append(f.events, JSONparse(Head(q))),
                                 !.i = f.i + 1,
                                 !.pc = IF f.i + 1 < f.max THEN "popping" ELSE "got"]]
     /\ UNCHANGED chanVars

\* One kv.lpop of the loop returns: null breaks, a value is parsed and kept.
lpopReturns(c) ==
  LET f == deq[c]
      q == kvQueue[f.sid]
  IN /\ f.pc = "popping"
     /\ IF q = <<>>
        THEN /\ deq' = [deq EXCEPT ![c].pc = "got"]
             /\ UNCHANGED kvQueue
        ELSE /\ kvQueue' = [kvQueue EXCEPT ![f.sid] = Tail(q)]
             /\ deq' = [deq EXCEPT ![c] =
                          [f EXCEPT !.events = Append(f.events, JSONparse(Head(q))),
                                    !.i = f.i + 1,
                                    !.pc = IF f.i + 1 < f.max THEN "popping" ELSE "got"]]
     /\ UNCHANGED <<SESSIONS, kvSession, created, log>>


(***************************************************************************)
(* The tool registry.                                                      *)
(***************************************************************************)
\* A missing params field (params?.expression, params?.city are undefined).
NoExpr == <<"undefined">>
NoCity == "undefined"

\* Expressions are sequences of characters.
Digits == {"0", "1", "2", "3", "4", "5", "6", "7", "8", "9"}
Letters == {"s", "i", "n", "P", "I", "x", "M", "a", "t", "h", "r", "d", "o", "m"}
\* The characters /^[-+*/()%.\d\s^a-zA-Z,]*$/ lets through.
CalcChars == {"-", "+", "*", "/", "(", ")", "%", ".", " ", "^", ","} \cup Digits \cup Letters

Returned(d) == [ok |-> TRUE, data |-> d]
Thrown(msg) == [ok |-> FALSE, data |-> <<msg>>]

\* Function(`... return (${expr});`)(): the JavaScript engine's value of the
\* expressions the model submits.
JSEval(expr) ==
  CASE expr = <<"0">> -> Returned(<<"0">>)
    [] expr = <<"2", "+", "3", "*", "4">> -> Returned(<<"14">>)
    [] expr = <<"1", "/", "0">> -> Returned(<<"Infinity">>)
    [] expr = <<"0", "/", "0">> -> Returned(<<"NaN">>)
    [] expr = <<"x">> -> Thrown("x is not defined")
    [] OTHER -> Thrown("Unexpected token")

\* An expression the character test lets through whose value the engine
\* draws anew at every evaluation, and the values of any expression.
RandomExpr == <<"M", "a", "t", "h", ".", "r", "a", "n", "d", "o", "m", "(", ")">>
JSEvalOutcomes(expr) ==
  IF expr = RandomExpr THEN {Returned(<<"0.25">>), Returned(<<"0.75">>)}
  ELSE {JSEval(expr)}

safeCalc(expr) ==
  IF \E i \in 1 .. Len(expr) : expr[i] \notin CalcChars
  THEN Thrown("invalid chars")
  ELSE JSEval(expr)

toolCalc(params) ==
  safeCalc(IF params.expression = NoExpr THEN <<"0">> ELSE params.expression)

WeatherCities == {"Delhi", "Mumbai", "Bengaluru"}
WEATHER(city) ==
  CASE city = "Delhi" -> <<"32", "Cloudy">>
    [] city = "Mumbai" -> <<"29", "Humid">>
    [] city = "Bengaluru" -> <<"24", "Light Rain">>

\* Keys every object literal inherits from Object.prototype: WEATHER[key]
\* is the inherited member, which is not nullish.
ObjectPrototypeKeys == {"constructor", "toString", "valueOf", "hasOwnProperty"}

toolWeather(params) ==
  LET city == IF params.city = NoCity THEN "Delhi" ELSE params.city
  IN Returned(IF city \in WeatherCities THEN WEATHER(city)
              ELSE IF city \in ObjectPrototypeKeys THEN <<"function", city>>
                   ELSE <<"28", "Clear">>)

\* The keys of TOOLS.
TOOLS == {"calc", "weather"}
InvokeTool(tool, params) ==
  IF tool = "calc" THEN toolCalc(params) ELSE toolWeather(params)

\* The results one call of TOOLS[tool](params) can have.
InvokeToolOutcomes(tool, params) ==
  IF tool = "calc" /\ params.expression = RandomExpr
  THEN JSEvalOutcomes(params.expression)
  ELSE {InvokeTool(tool, params)}

(***************************************************************************)
(* Graphs.  A node is {id, data: {label, tool, params, state: {query}}};   *)
(* an absent tool or query is "".                                          *)
(***************************************************************************)
NodeRec(id, label, tool, expr, city, query) ==
  [id |-> id, label |-> label, tool |-> tool,
   params |-> [expression |-> expr, city |-> city], query |-> query]
Edge(s, t) == [source |-> s, target |-> t]

\* String.prototype.toLowerCase on the labels of the model.
toLowerCase(label) ==
  CASE label = "LLM" -> "llm"
    [] label = "Tool" -> "tool"
    [] label = "Input" -> "input"
    [] label = "Output" -> "output"
    [] OTHER -> label

\* Ids that are canonical array indices, with their numeric value: Object.keys
\* lists these first, in ascending order, before the other keys.
ArrayIndexKeys == ("1" :> 1) @@ ("2" :> 2) @@ ("3" :> 3)

RECURSIVE FirstOccurrences(_, _)
FirstOccurrences(ids, seen) ==
  IF ids = <<>> THEN <<>>
  ELSE IF Head(ids) \in seen THEN FirstOccurrences(Tail(ids), seen)
       ELSE <<Head(ids)>> \o FirstOccurrences(Tail(ids), seen \cup {Head(ids)})

RECURSIVE SortedIndexKeys(_)
SortedIndexKeys(S) ==
  IF S = {} THEN <<>>
  ELSE LET m == CHOOSE x \in S : \A y \in S : ArrayIndexKeys[x] <= ArrayIndexKeys[y]
       IN <<m>> \o SortedIndexKeys(S \ {m})

\* Object.keys(Object.fromEntries(graph.nodes.map(n => [n.id, n]))).
ObjectKeys(graph) ==
  LET ids == FirstOccurrences([i \in 1 .. Len(graph.nodes) |-> graph.nodes[i].id], {})
      idx == {ids[i] : i \in 1 .. Len(ids)} \cap DOMAIN ArrayIndexKeys
  IN SortedIndexKeys(idx) \o SelectSeq(ids, LAMBDA x : x \notin idx)

NodeIdSet(graph) == {graph.nodes[i].id : i \in 1 .. Len(graph.nodes)}

\* nodes[id]: the last entry with that id wins; an absent id reads as
\* undefined, whose label, tool and params are the code's defaults.
nodeOf(graph, id) ==
  IF id \in NodeIdSet(graph)
  THEN LET i == CHOOSE i \in 1 .. Len(graph.nodes) :
                  /\ graph.nodes[i].id = id
                  /\ \A j \in (i + 1) .. Len(graph.nodes) : graph.nodes[j].id # id
       IN graph.nodes[i]
  ELSE NodeRec(id, "", "", NoExpr, NoCity, "")

\* A faulty count that counts the edges into a target once however many
\* there are.
RECURSIVE CountEdges_once(_, _)
CountEdges_once(edges, inc) ==
  IF edges = <<>> THEN inc
  ELSE CountEdges_once(Tail(edges), (Head(edges).target :> 1) @@ inc)

\* incoming after lines 107-109.
RECURSIVE CountEdges(_, _)
CountEdges(edges, inc) ==
  IF edges = <<>> THEN inc
  ELSE LET t == Head(edges).target
           n == IF t \in DOMAIN inc THEN inc[t] ELSE 0
       IN CountEdges(Tail(edges), (t :> n + 1) @@ inc)

\* A faulty count that ignores the edges: every node starts at zero.
initialIncoming_none(graph) == [k \in NodeIdSet(graph) |-> 0]

initialIncoming(graph) ==
  CountEdges(graph.edges, [k \in NodeIdSet(graph) |-> 0])

\* A faulty seed that admits every key whatever its count.
initialFrontier_all(graph) == ObjectKeys(graph)

\* frontier of line 111.
initialFrontier(graph) ==
  SelectSeq(ObjectKeys(graph), LAMBDA k : initialIncoming(graph)[k] = 0)

\* nexts(id) of line 112.
nexts(graph, id) ==
  LET es == SelectSeq(graph.edges, LAMBDA e : e.source = id)
  IN [i \in 1 .. Len(es) |-> es[i].target]

\* A faulty loop that admits every successor whatever its remaining count.
RECURSIVE advance_eager(_, _, _)
advance_eager(ts, inc, fr) ==
  IF ts = <<>> THEN <<inc, fr>>
  ELSE LET t == Head(ts)
       IN advance_eager(Tail(ts), [inc EXCEPT ![t] = @ - 1], Append(fr, t))

\* The loop of lines 209-212 over ts: <<incoming, frontier>> after it.
RECURSIVE advance(_, _, _)
advance(ts, inc, fr) ==
  IF ts = <<>> THEN <<inc, fr>>
  ELSE LET t == Head(ts)
           inc2 == [inc EXCEPT ![t] = @ - 1]
       IN advance(Tail(ts), inc2, IF inc2[t] = 0 THEN Append(fr, t) ELSE fr)

\* const isLLM of line 125, and of line 231 in the earlier variant.
isLLM(node) ==
  \/ toLowerCase(node.label) = "llm"
  \/ guarded /\ node.tool = "llm"

\* tool && TOOLS[tool]
isTool(node) == node.tool # "" /\ node.tool \in TOOLS

(***************************************************************************)
(* The dispatcher: executeGraph.                                           *)
(***************************************************************************)
EmptyGraph == [nodes |-> <<>>, edges |-> <<>>]
NoPatch == [status |-> "", data |-> <<>>]
\* A payload without a graph field, and what lines 104-105 read from a
\* payload: graph?.nodes || [], graph?.edges || [].
NoGraph == [undefined |-> TRUE]
graphOrEmpty(graph) == IF "undefined" \in DOMAIN graph THEN EmptyGraph ELSE graph

\* noGraph is history: the payload of the submission had no graph.
IdleRun == [pc |-> "idle", sid |-> StrayId, graph |-> EmptyGraph, incoming |-> <<>>,
            frontier |-> <<>>, finalStates |-> <<>>, nid |-> "", patch |-> NoPatch,
            visited |-> <<>>, noGraph |-> FALSE]

\* The request body's tools field is absent.
NoTools == <<"undefined">>
SystemPrompt == [role |-> "system", content |-> <<"planner">>]
DefaultQuery == <<"Plan the next steps">>

\* The transcript of lines 129-148 for node nid, over the upstream ids us.
RECURSIVE upstreamMessages(_, _, _)
upstreamMessages(graph, finalStates, us) ==
  IF us = <<>> THEN <<>>
  ELSE LET uNode == nodeOf(graph, Head(us))
           uState == IF Head(us) \in DOMAIN finalStates THEN finalStates[Head(us)]
                     ELSE NoPatch
           label == toLowerCase(uNode.label)
           rest == upstreamMessages(graph, finalStates, Tail(us))
       IN IF label = "input"
          THEN (IF uNode.query # ""
                THEN <<[role |-> "user", content |-> <<uNode.query>>]>> ELSE <<>>) \o rest
          ELSE IF label = "tool"
               THEN (IF uState.status = "done"
                     THEN <<[role |-> "system", content |-> <<uNode.tool>> \o uState.data]>>
                     ELSE <<>>) \o rest
               ELSE rest

messagesFor(graph, finalStates, nid) ==
  IF guarded
  THEN LET es == SelectSeq(graph.edges, LAMBDA e : e.target = nid)
       IN <<SystemPrompt>>
            \o upstreamMessages(graph, finalStates, [i \in 1 .. Len(es) |-> es[i].source])
  ELSE LET q == nodeOf(graph, nid).query
       IN <<SystemPrompt,
            [role |-> "user", content |-> IF q # "" THEN <<q>> ELSE DefaultQuery]>>

\* connectedTools of lines 151-160: computed, and not part of the request
\* body of line 178.
connectedTools(graph, nid) ==
  LET es == SelectSeq(graph.edges, LAMBDA e : e.source = nid \/ e.target = nid)
      ns == [i \in 1 .. Len(es) |->
               nodeOf(graph, IF es[i].source = nid THEN es[i].target ELSE es[i].source)]
      ts == SelectSeq(ns, LAMBDA n : toLowerCase(n.label) = "tool" /\ n.tool # "")
  IN FirstOccurrences([i \in 1 .. Len(ts) |-> ts[i].tool], {})

\* The request of lines 175-180 as the adapter receives it.
NewInvocation(sid, nid, messages) ==
  [pc |-> "sent", sid |-> sid, node |-> nid, messages |-> messages, tools |-> NoTools,
   bound |-> <<>>, calls |-> <<>>, results |-> <<>>, chunks |-> <<>>, status |-> ""]

\* A faulty loop head that leaves the loop without the closing event.
loopHead_noDone(r, f) ==
  IF f.frontier # <<>>
  THEN LET nid == Head(f.frontier)
       IN /\ run' = [run EXCEPT ![r] =
                       [f EXCEPT !.pc = "entered", !.nid = nid,
                                 !.frontier = Tail(f.frontier),
                                 !.visited = Append(f.visited, nid)]]
          /\ enqueue(f.sid, NodeEnter(nid), "dispatcher", r)
  ELSE /\ run' = [run EXCEPT ![r] = [f EXCEPT !.pc = "doneSent", !.nid = ""]]
       /\ UNCHANGED chanVars

\* A faulty loop head that takes a node from the frontier without
\* announcing it.
loopHead_noEnter(r, f) ==
  IF f.frontier # <<>>
  THEN /\ run' = [run EXCEPT ![r] =
                    [f EXCEPT !.pc = "entered", !.nid = Head(f.frontier),
                              !.frontier = Tail(f.frontier),
                              !.visited = Append(f.visited, Head(f.frontier))]]
       /\ UNCHANGED chanVars
  ELSE /\ run' = [run EXCEPT ![r] = [f EXCEPT !.pc = "doneSent", !.nid = ""]]
       /\ enqueue(f.sid, DoneEvt, "dispatcher", r)

\* A faulty loop head that announces the node behind the one it takes.
loopHead_announceOther(r, f) ==
  IF f.frontier # <<>>
  THEN /\ run' = [run EXCEPT ![r] =
                    [f EXCEPT !.pc = "entered", !.nid = Head(f.frontier),
                              !.frontier = Tail(f.frontier),
                              !.visited = Append(f.visited, Head(f.frontier))]]
       /\ enqueue(f.sid, NodeEnter(f.frontier[Len(f.frontier)]), "dispatcher", r)
  ELSE /\ run' = [run EXCEPT ![r] = [f EXCEPT !.pc = "doneSent", !.nid = ""]]
       /\ enqueue(f.sid, DoneEvt, "dispatcher", r)

\* The head of the while loop, run on frame f: lines 116-121, or line 215
\* when the frontier is empty.
loopHead(r, f) ==
  IF f.frontier # <<>>
  THEN LET nid == Head(f.frontier)
       IN /\ run' = [run EXCEPT ![r] =
                       [f EXCEPT !.pc = "entered", !.nid = nid,
                                 !.frontier = Tail(f.frontier),
                                 !.visited = Append(f.visited, nid)]]
          /\ enqueue(f.sid, NodeEnter(nid), "dispatcher", r)
  ELSE /\ run' = [run EXCEPT ![r] = [f EXCEPT !.pc = "doneSent", !.nid = ""]]
       /\ enqueue(f.sid, DoneEvt, "dispatcher", r)

\* Lines 208-213 for the node just handled, then the loop head.
advanceGraph(r, f) ==
  LET a == advance(nexts(f.graph, f.nid), f.incoming, f.frontier)
  IN loopHead(r, [f EXCEPT !.incoming = a[1], !.frontier = a[2]])

otherVars == <<hasKV, guarded, deq, taken, adapter, reader>>

\* POST /api/runs, then executeGraph up to its first await.
submitRun(r, sid, graph) ==
  /\ run[r].pc = "idle"
  /\ IF sid = ""
     THEN /\ run' = [run EXCEPT ![r].pc = "rejected"]
          /\ UNCHANGED chanVars
     ELSE /\ run' = [run EXCEPT ![r] = [IdleRun EXCEPT !.pc = "setup", !.sid = sid,
                                                       !.graph = graphOrEmpty(graph),
                                                       !.noGraph = (graph = NoGraph)]]
          /\ IF guarded THEN enqueue(sid, SysPatch, "dispatcher", r)
             ELSE UNCHANGED chanVars
  /\ UNCHANGED otherVars

\* Lines 104-114, then the loop head.
setupGraph(r) ==
  /\ run[r].pc = "setup"
  /\ loopHead(r, [run[r] EXCEPT !.incoming = initialIncoming(run[r].graph),
                                !.frontier = initialFrontier(run[r].graph)])
  /\ UNCHANGED otherVars

\* A faulty classification that announces a plain node as running and
\* never enqueues its skipped patch.
classifyNode_announce(r) ==
  LET f == run[r]
  IN /\ f.pc = "entered"
     /\ run' = [run EXCEPT ![r].pc = "patched",
                           ![r].patch = [status |-> "skipped", data |-> <<>>]]
     /\ enqueue(f.sid, Patch(f.nid, "running", <<>>), "dispatcher", r)
     /\ UNCHANGED otherVars

\* Lines 123-127 and the first patch of the node's branch.
classifyNode(r) ==
  LET f == run[r]
      node == nodeOf(f.graph, f.nid)
  IN /\ f.pc = "entered"
     /\ IF isLLM(node)
        THEN /\ run' = [run EXCEPT ![r].pc = "planning"]
             /\ enqueue(f.sid, Patch(f.nid, "planning", <<>>), "dispatcher", r)
        ELSE IF isTool(node)
             THEN /\ run' = [run EXCEPT ![r].pc = "running"]
                  /\ enqueue(f.sid, Patch(f.nid, "running", <<node.tool>>), "dispatcher", r)
             ELSE /\ run' = [run EXCEPT ![r].pc = "patched",
                                        ![r].patch = [status |-> "skipped", data |-> <<>>]]
                  /\ enqueue(f.sid, Patch(f.nid, "skipped", <<>>), "dispatcher", r)
     /\ UNCHANGED otherVars

\* Lines 168-180: the request leaves and the dispatcher awaits the response.
fireFetch(r) ==
  LET f == run[r]
  IN /\ f.pc = "planning"
     /\ run' = [run EXCEPT ![r].pc = "fetching"]
     /\ adapter' = (<<r, f.nid>> :>
                      NewInvocation(f.sid, f.nid, messagesFor(f.graph, f.finalStates, f.nid)))
                   @@ adapter
     /\ UNCHANGED <<hasKV, guarded, deq, taken, reader>>
     /\ UNCHANGED chanVars

\* finalStates[nid] = patch where the variant keeps final states.
recordFinal(f, patch) ==
  IF guarded THEN [f EXCEPT !.finalStates = (f.nid :> patch) @@ f.finalStates] ELSE f

\* A faulty dispatcher that fires the request and goes on without awaiting
\* the response.
fetchResolves_noWait(r) ==
  LET f == run[r]
  IN /\ f.pc = "fetching"
     /\ advanceGraph(r, recordFinal(f, [status |-> "started", data |-> <<>>]))
     /\ UNCHANGED otherVars

\* The response arrives: fetch resolves whatever its status; lines 183-187.
fetchResolves(r) ==
  LET f == run[r]
  IN /\ f.pc = "fetching"
     /\ adapter[<<r, f.nid>>].pc = "responded"
     /\ advanceGraph(r, recordFinal(f, [status |-> "started", data |-> <<>>]))
     /\ UNCHANGED otherVars

\* A faulty catch that swallows the rejection without reporting it.
fetchRejects_silent(r) ==
  /\ run[r].pc = "fetching"
  /\ run' = [run EXCEPT ![r].pc = "llmError"]
  /\ UNCHANGED chanVars
  /\ UNCHANGED otherVars

\* fetch rejects: the timeout of line 172 aborts it, or the network fails.
\* Line 182 catches it; the earlier variant has no catch and the rejection
\* leaves executeGraph.
fetchRejects(r) ==
  LET f == run[r]
  IN /\ f.pc = "fetching"
     /\ IF guarded
        THEN /\ run' = [run EXCEPT ![r].pc = "llmError"]
             /\ enqueue(f.sid, Patch(f.nid, "error", <<"fetch failed">>), "dispatcher", r)
        ELSE /\ run' = [run EXCEPT ![r].pc = "threw"]
             /\ UNCHANGED chanVars
     /\ UNCHANGED otherVars

\* After the catch: lines 183-187, then lines 208-213.
afterFetchError(r) ==
  LET f == run[r]
  IN /\ f.pc = "llmError"
     /\ advanceGraph(r, recordFinal(f, [status |-> "started", data |-> <<>>]))
     /\ UNCHANGED otherVars

\* A faulty tool branch that reports every outcome as done.
toolPatch_alwaysDone(res) == [status |-> "done", data |-> res.data]

\* Lines 192-200 up to the await of the terminal patch's enqueue.
toolPatch(res) ==
  [status |-> IF res.ok THEN "done" ELSE "error", data |-> res.data]

\* A faulty tool branch without the catch: a raising handler's exception
\* leaves executeGraph.
invokeToolNode_uncaught(r) ==
  LET f == run[r]
      node == nodeOf(f.graph, f.nid)
      patch == toolPatch(InvokeTool(node.tool, node.params))
  IN /\ f.pc = "running"
     /\ IF patch.status = "error"
        THEN /\ run' = [run EXCEPT ![r].pc = "threw"]
             /\ UNCHANGED chanVars
        ELSE /\ run' = [run EXCEPT ![r].pc = "patched", ![r].patch = patch]
             /\ enqueue(f.sid, Patch(f.nid, patch.status, patch.data), "dispatcher", r)
     /\ UNCHANGED otherVars

invokeToolNode(r) ==
  LET f == run[r]
      node == nodeOf(f.graph, f.nid)
  IN /\ f.pc = "running"
     /\ \E res \in InvokeToolOutcomes(node.tool, node.params) :
          LET patch == toolPatch(res)
          IN /\ run' = [run EXCEPT ![r].pc = "patched", ![r].patch = patch]
             /\ enqueue(f.sid, Patch(f.nid, patch.status, patch.data), "dispatcher", r)
     /\ UNCHANGED otherVars

\* finalStates[nid] = patch (lines 196, 200, 205), then lines 208-213.
recordAndAdvance(r) ==
  LET f == run[r]
  IN /\ f.pc = "patched"
     /\ advanceGraph(r, recordFinal(f, f.patch))
     /\ UNCHANGED otherVars

\* Line 216.
returnFinalStates(r) ==
  /\ run[r].pc = "doneSent"
  /\ run' = [run EXCEPT ![r].pc = "returned"]
  /\ UNCHANGED chanVars
  /\ UNCHANGED otherVars

(***************************************************************************)
(* The external step adapter: POST /api/llm.                               *)
(***************************************************************************)
\* The keys of available (line 39).
AvailableTools == <<"calc", "weather">>

\* selected of lines 40-42, as the keys whose available[n] is truthy: the
\* registered names and the keys the object literal inherits.
selectedTools(toolNames) ==
  SelectSeq(IF toolNames # NoTools /\ toolNames # <<>> THEN toolNames ELSE AvailableTools,
            LAMBDA n : n \in {AvailableTools[i] : i \in 1 .. Len(AvailableTools)}
                               \cup ObjectPrototypeKeys)

\* chat.bindTools of lines 44-53: zodToJsonSchema(t.schema, t.name) on an
\* inherited member, which has no schema, returns or throws; an exception
\* leaves the handler before the try of line 55.
bindOutcomes(selected) ==
  {"bound"} \cup (IF \E i \in 1 .. Len(selected) : selected[i] \in ObjectPrototypeKeys
                  THEN {"threw"} ELSE {})

Call(name, expr, city) == [name |-> name, args |-> [expression |-> expr, city |-> city]]

\* A faulty loop in which a call of an unknown tool throws.
callResult_strict(call) ==
  IF call.name = "calc" THEN toolCalc(call.args)
  ELSE IF call.name = "weather" THEN toolWeather(call.args)
       ELSE Thrown("Unknown tool " \o call.name)

\* One iteration of the loop of lines 69-80.
callResult(call) ==
  IF call.name = "calc" THEN toolCalc(call.args)
  ELSE IF call.name = "weather" THEN toolWeather(call.args)
       ELSE Returned(<<"error", "Unknown tool " \o call.name>>)

\* Lines 33-57: the handler starts, binds the tools and awaits the plan.
\* The earlier adapter reads the undeclared name tools (route.ts line 33):
\* the ReferenceError is thrown before its try block is entered.
adapterStarts(k) ==
  /\ k \in DOMAIN adapter
  /\ adapter[k].pc = "sent"
  /\ IF guarded
     THEN LET selected == selectedTools(adapter[k].tools)
          IN \E outcome \in bindOutcomes(selected) :
               adapter' = IF outcome = "bound"
                          THEN [adapter EXCEPT ![k].pc = "planning", ![k].bound = selected]
                          ELSE [adapter EXCEPT ![k].pc = "escaped"]
     ELSE adapter' = [adapter EXCEPT ![k].pc = "escaped"]
  /\ UNCHANGED <<hasKV, guarded, deq, taken, run, reader>>
  /\ UNCHANGED chanVars

\* Lines 58-66 and 110-112: the plan arrives with its tool calls.
planReturns(k, calls) ==
  /\ k \in DOMAIN adapter
  /\ adapter[k].pc = "planning"
  /\ IF calls # <<>>
     THEN /\ adapter' = [adapter EXCEPT ![k].pc = "toolCalling", ![k].calls = calls]
          /\ enqueue(adapter[k].sid,
                     Patch(adapter[k].node, "tool_calling",
                           [i \in 1 .. Len(calls) |-> calls[i].name]),
                     "adapter", k[1])
     ELSE /\ adapter' = [adapter EXCEPT ![k].pc = "streaming", ![k].status = "generating"]
          /\ UNCHANGED chanVars
  /\ UNCHANGED <<hasKV, guarded, deq, taken, run, reader>>

\* toolResults of lines 68-80 as the patch of line 82 carries it: for
\* every call, in order, its name and then its result.
RECURSIVE toolResults(_, _)
toolResults(names, results) ==
  IF names = <<>> THEN <<>>
  ELSE <<Head(names)>> \o Head(results) \o toolResults(Tail(names), Tail(results))

\* Lines 68-92: the calls run in order; the first that throws ends in the
\* catch of line 136.
runToolCalls(k) ==
  LET a == adapter[k]
      rs == [i \in 1 .. Len(a.calls) |-> callResult(a.calls[i])]
      bad == {i \in 1 .. Len(rs) : ~rs[i].ok}
  IN /\ k \in DOMAIN adapter
     /\ a.pc = "toolCalling"
     /\ IF bad # {}
        THEN LET i == CHOOSE i \in bad : \A j \in bad : i <= j
             IN /\ adapter' = [adapter EXCEPT ![k].pc = "failed", ![k].status = "error"]
                /\ enqueue(a.sid, Patch(a.node, "error", rs[i].data), "adapter", k[1])
        ELSE /\ adapter' = [adapter EXCEPT ![k].pc = "streaming", ![k].status = "answering",
                                           ![k].results = [i \in 1 .. Len(rs) |-> rs[i].data]]
             /\ enqueue(a.sid,
                        Patch(a.node, "tool_results",
                              toolResults([i \in 1 .. Len(rs) |-> a.calls[i].name],
                                          [i \in 1 .. Len(rs) |-> rs[i].data])),
                        "adapter", k[1])
     /\ UNCHANGED <<hasKV, guarded, deq, taken, run, reader>>

\* A faulty join that keeps only the newest chunk.
join_newest(chunks) == IF chunks = <<>> THEN "" ELSE chunks[Len(chunks)]

RECURSIVE join(_)
join(chunks) == IF chunks = <<>> THEN "" ELSE Head(chunks) \o join(Tail(chunks))

\* handleLLMNewToken of lines 95-101 and 115-121.
tokenArrives(k, token) ==
  LET a == adapter[k]
  IN /\ k \in DOMAIN adapter
     /\ a.pc = "streaming"
     /\ Len(a.chunks) < MaxTokens
     /\ adapter' = [adapter EXCEPT ![k].chunks = Append(a.chunks, token)]
     /\ enqueue(a.sid, Patch(a.node, a.status, <<join(Append(a.chunks, token))>>),
                "adapter", k[1])
     /\ UNCHANGED <<hasKV, guarded, deq, taken, run, reader>>

\* The stream is drained: lines 107-108 and 129-130.
streamEnds(k) ==
  LET a == adapter[k]
  IN /\ k \in DOMAIN adapter
     /\ a.pc = "streaming"
     /\ adapter' = [adapter EXCEPT ![k].pc = "finished", ![k].status = "done"]
     /\ enqueue(a.sid, Patch(a.node, "done", <<join(a.chunks)>>), "adapter", k[1])
     /\ UNCHANGED <<hasKV, guarded, deq, taken, run, reader>>

\* The collaborator's call throws while planning or streaming: lines 136-141.
collaboratorThrows(k) ==
  LET a == adapter[k]
  IN /\ k \in DOMAIN adapter
     /\ a.pc \in {"planning", "streaming"}
     /\ adapter' = [adapter EXCEPT ![k].pc = "failed", ![k].status = "error"]
     /\ enqueue(a.sid, Patch(a.node, "error", <<"collaborator failed">>), "adapter", k[1])
     /\ UNCHANGED <<hasKV, guarded, deq, taken, run, reader>>

\* Lines 133 and 142: the handler returns its Response; the framework
\* answers for a handler that threw.
adapterResponds(k) ==
  /\ k \in DOMAIN adapter
  /\ adapter[k].pc \in {"finished", "failed", "escaped"}
  /\ adapter' = [adapter EXCEPT ![k].pc = "responded"]
  /\ UNCHANGED <<hasKV, guarded, deq, taken, run, reader>>
  /\ UNCHANGED chanVars

(***************************************************************************)
(* Consumers: a raw caller of dequeueBatch, and the stream reader          *)
(* GET /api/stream.                                                        *)
(***************************************************************************)
StreamBatch == 64
\* abortedAt and late are history: the number of events the session had
\* accepted when the client went away, and whether the call in progress
\* was started after that.
IdleReader == [pc |-> "idle", sid |-> StrayId, out |-> <<>>, aborted |-> FALSE,
               abortedAt |-> 0, late |-> FALSE]

\* The history keeps the batches that removed something.
Batch(c, f) == [by |-> c, events |-> f.events]
recordBatch(c) ==
  IF deq[c].events = <<>> THEN UNCHANGED taken
  ELSE taken' = [taken EXCEPT ![deq[c].sid] = Append(@, Batch(c, deq[c]))]

\* A task calls dequeueBatch(sid, max).
callDequeue(c, sid, max) ==
  /\ reader[c].pc = "idle"
  /\ deq[c].pc = "idle"
  /\ dequeueBatchCall(c, sid, max)
  /\ UNCHANGED <<hasKV, guarded, taken, run, adapter, reader>>

\* One kv.lpop of consumer c's call returns.
lpopStep(c) ==
  /\ lpopReturns(c)
  /\ UNCHANGED <<hasKV, guarded, taken, run, adapter, reader>>

\* dequeueBatch returns its batch to the raw caller.
dequeueReturns(c) ==
  /\ reader[c].pc = "idle"
  /\ deq[c].pc = "got"
  /\ recordBatch(c)
  /\ deq' = [deq EXCEPT ![c] = IdleFrame]
  /\ UNCHANGED <<hasKV, guarded, run, adapter, reader>>
  /\ UNCHANGED chanVars

\* GET lines 5-28: the request is checked, the stream opens and the loop
\* makes its first dequeueBatch call.
openStream(c, sid) ==
  /\ reader[c].pc = "idle"
  /\ deq[c].pc = "idle"
  /\ IF sid = ""
     THEN /\ reader' = [reader EXCEPT ![c].pc = "rejected"]
          /\ UNCHANGED deq
          /\ UNCHANGED chanVars
     ELSE /\ reader' = [reader EXCEPT ![c].pc = "polling", ![c].sid = sid]
          /\ dequeueBatchCall(c, sid, StreamBatch)
  /\ UNCHANGED <<hasKV, guarded, taken, run, adapter>>

\* A faulty loop that forwards the whole batch, whatever follows a done.
forwarded_all(batch) == batch

\* The events of a batch the loop of lines 30-36 forwards: up to and
\* including the first done.
RECURSIVE forwarded(_)
forwarded(batch) ==
  IF batch = <<>> THEN <<>>
  ELSE IF Head(batch).type = "done" THEN <<Head(batch)>>
       ELSE <<Head(batch)>> \o forwarded(Tail(batch))

hasDone(batch) == \E i \in 1 .. Len(batch) : batch[i].type = "done"

\* The SSE frames of line 31: data: JSON.stringify(evt).
frames(events) == [i \in 1 .. Len(events) |-> JSONstringify(events[i])]

\* controller.enqueue of line 31: once the client is gone the stream is
\* cancelled, at the abort or after it, and enqueue on a cancelled stream
\* throws.
writeOutcomes(aborted, batch) ==
  {"written"} \cup (IF aborted /\ batch # <<>> THEN {"threw"} ELSE {})

\* Lines 28-45: the batch is forwarded; the stream closes on done, else the
\* reader sleeps. An enqueue that throws ends the loop (lines 50-52; in the
\* earlier reader the rejected tick schedules no other).
readerForwards(c) ==
  LET batch == deq[c].events
  IN /\ reader[c].pc = "polling"
     /\ deq[c].pc = "got"
     /\ recordBatch(c)
     /\ deq' = [deq EXCEPT ![c] = IdleFrame]
     /\ \E outcome \in writeOutcomes(reader[c].aborted, batch) :
          reader' = IF outcome = "written"
                    THEN [reader EXCEPT
                            ![c].out = reader[c].out \o frames(forwarded(batch)),
                            ![c].pc = IF hasDone(batch) THEN "closed" ELSE "sleeping"]
                    ELSE [reader EXCEPT ![c].pc = "closed"]
     /\ UNCHANGED <<hasKV, guarded, run, adapter>>
     /\ UNCHANGED chanVars

\* Lines 26-28 and 48-49: the sleep ends; an aborted signal ends the loop,
\* else the next dequeueBatch call is made. The tick of the earlier reader
\* (api/stream/route.ts lines 22-34) looks at no signal.
readerWakes(c) ==
  /\ reader[c].pc = "sleeping"
  /\ IF guarded /\ reader[c].aborted
     THEN /\ reader' = [reader EXCEPT ![c].pc = "closed"]
          /\ UNCHANGED deq
          /\ UNCHANGED chanVars
     ELSE /\ reader' = [reader EXCEPT ![c].pc = "polling", ![c].late = reader[c].aborted]
          /\ dequeueBatchCall(c, reader[c].sid, StreamBatch)
  /\ UNCHANGED <<hasKV, guarded, taken, run, adapter>>

\* The remote end goes away: req.signal aborts.
clientDisconnects(c) ==
  /\ reader[c].pc \in {"polling", "sleeping"}
  /\ ~reader[c].aborted
  /\ reader' = [reader EXCEPT ![c].aborted = TRUE,
                              ![c].abortedAt = Len(log[reader[c].sid])]
  /\ UNCHANGED <<hasKV, guarded, deq, taken, run, adapter>>
  /\ UNCHANGED chanVars

\* Some producer calls enqueue(sid, evt).
produce(sid, evt) ==
  /\ enqueue(sid, evt, "producer", 0)
  /\ UNCHANGED <<hasKV, guarded, deq, taken, run, adapter, reader>>

(***************************************************************************)
(* Inputs: the graphs a client submits, the plans and tokens of the        *)
(* collaborator, the events of an abstract producer.                       *)
(***************************************************************************)
\* The node ids of the graphs submitted to the scheduler alone, and to the
\* system with its external steps.
SchedIds == <<"a", "b", "c">>
SysIds == <<"a", "b">>
RerunIds == <<"a">>

\* The nodes of the studio palette, by kind.
MkNode(id, kind) ==
  CASE kind = "llm" -> NodeRec(id, "LLM", "", NoExpr, NoCity, "")
    [] kind = "input" -> NodeRec(id, "Input", "", NoExpr, NoCity, "Hello")
    [] kind = "calc" -> NodeRec(id, "Tool", "calc", <<"2", "+", "3", "*", "4">>, NoCity, "")
    [] kind = "calcBad" -> NodeRec(id, "Tool", "calc", <<"2", "+", "$">>, NoCity, "")
    [] kind = "weather" -> NodeRec(id, "Tool", "weather", NoExpr, "Delhi", "")
    [] kind = "search" -> NodeRec(id, "Tool", "search", NoExpr, NoCity, "")
    [] kind = "calcRandom" -> NodeRec(id, "Tool", "calc", RandomExpr, NoCity, "")
    [] kind = "weatherParis" -> NodeRec(id, "Tool", "weather", NoExpr, "Paris", "")
    [] kind = "weatherProto" -> NodeRec(id, "Tool", "weather", NoExpr, "constructor", "")
    [] OTHER -> NodeRec(id, "Output", "", NoExpr, NoCity, "")

\* The graph of the first n of ids, of kinds ks, with the edges es.
MkGraph(ids, n, ks, es) ==
  [nodes |-> [i \in 1 .. n |-> MkNode(ids[i], ks[i])], edges |-> es]

\* The edges between the first n of ids and the ids of extra.
EdgesOver(ids, n, extra) ==
  LET ends == {ids[i] : i \in 1 .. n} \cup extra
  IN {Edge(u, v) : u \in ends, v \in ends}

SchedKinds == {"plain", "calc", "calcBad"}
SysKinds == {"plain", "calc", "llm"}
RerunKinds == {"plain", "calc"}

CallPalette ==
  {Call("calc", <<"2", "+", "3", "*", "4">>, NoCity), Call("calc", <<"2", "+", "$">>, NoCity),
   Call("weather", NoExpr, "Pune"), Call("nope", NoExpr, NoCity)}
SysPlans == {<<>>, <<Call("calc", <<"2", "+", "3", "*", "4">>, NoCity)>>}
Tokens == {"t"}

ProducerEvents == {NodeEnter("a"), Patch("a", "done", <<"NaN">>)}
\* The ids the channel's callers name: a created one and one never created.
ChanSids == {"s1", StrayId}
Produced == Len(log["s0"]) + Len(log["s1"]) + Len(log["s2"])

(***************************************************************************)
(* Specifications.                                                         *)
(***************************************************************************)
InitWith(kv, g) ==
  /\ hasKV \in kv
  /\ guarded = g
  /\ SESSIONS = <<>>
  /\ kvQueue = [s \in AllSids |-> <<>>]
  /\ kvSession = {}
  /\ created = {}
  /\ log = [s \in AllSids |-> <<>>]
  /\ deq = [c \in Consumers |-> IdleFrame]
  /\ taken = [s \in AllSids |-> <<>>]
  /\ run = [r \in Runs |-> IdleRun]
  /\ adapter = <<>>
  /\ reader = [c \in Consumers |-> IdleReader]

Init == InitWith(BOOLEAN, TRUE)

dispatcherStep(r) ==
  \/ setupGraph(r)
  \/ classifyNode(r)
  \/ invokeToolNode(r)
  \/ recordAndAdvance(r)
  \/ returnFinalStates(r)

fetchStep(r) ==
  \/ fireFetch(r)
  \/ fetchResolves(r)
  \/ fetchRejects(r)

handlerStep(k) ==
  \/ adapterStarts(k)
  \/ runToolCalls(k)
  \/ adapterResponds(k)

collaboratorStep(k) ==
  \/ \E calls \in SysPlans : planReturns(k, calls)
  \/ \E t \in Tokens : tokenArrives(k, t)
  \/ streamEnds(k)
  \/ collaboratorThrows(k)

readerStep(c) ==
  \/ readerForwards(c)
  \/ readerWakes(c)
  \/ lpopStep(c)

\* A client submits run r on session sid with a graph over some of ids, of
\* the given kinds, with up to maxE edges between the node ids and extra.
clientSubmits(r, sid, ids, kinds, extra, maxE) ==
  /\ run[r].pc = "idle"
  /\ \E n \in 0 .. Len(ids), k \in 0 .. maxE :
       \E ks \in [1 .. n -> kinds], es \in [1 .. k -> EdgesOver(ids, n, extra)] :
         /\ Cardinality({i \in 1 .. n : ks[i] = "llm"}) <= MaxExternal
         /\ submitRun(r, sid, MkGraph(ids, n, ks, es))

\* One run with its external steps: the dispatcher and the adapters it fires.
Next ==
  \/ createSession("s1")
  \/ clientSubmits(1, "s1", SysIds, SysKinds, {}, MaxSysEdges)
  \/ dispatcherStep(1) \/ fetchStep(1) \/ afterFetchError(1)
  \/ \E k \in DOMAIN adapter : handlerStep(k) \/ collaboratorStep(k)

Spec == Init /\ [][Next]_vars

\* The scheduler: one run of a graph without external steps.
SchedNext ==
  \/ createSession("s1")
  \/ clientSubmits(1, "s1", SchedIds, SchedKinds, {}, MaxEdges)
  \/ dispatcherStep(1)

SchedSpec == Init /\ [][SchedNext]_vars

\* Several runs on one session, concurrent or one after the other.
RerunNext ==
  \/ createSession("s1")
  \/ \E r \in Runs : clientSubmits(r, "s1", RerunIds, RerunKinds, {}, MaxSysEdges)
  \/ \E r \in Runs : dispatcherStep(r)

RerunSpec == Init /\ [][RerunNext]_vars

\* The channel alone: producers and raw consumers on any session id.
ChanNext ==
  \/ createSession("s1")
  \/ MarkerExpires("s1")
  \/ \E sid \in ChanSids, e \in ProducerEvents : Produced < MaxEnqueued /\ produce(sid, e)
  \/ \E c \in Consumers, sid \in ChanSids, max \in 1 .. MaxBatch : callDequeue(c, sid, max)
  \/ \E c \in Consumers : lpopStep(c) \/ dequeueReturns(c)

ChanSpec == Init /\ [][ChanNext]_vars

(***************************************************************************)
(* Properties of the event channel (ChanSpec).                             *)
(***************************************************************************)
RECURSIVE Flatten(_)
Flatten(batches) ==
  IF batches = <<>> THEN <<>> ELSE Head(batches).events \o Flatten(Tail(batches))

\* The consumers that have removed something from sid or are inside a call on it.
ConsumersOf(sid) ==
  {taken[sid][i].by : i \in 1 .. Len(taken[sid])}
    \cup {c \in Consumers : deq[c].pc # "idle" /\ deq[c].sid = sid}

SingleConsumer(sid) == Cardinality(ConsumersOf(sid)) <= 1

\* The events of sid held by calls that have not returned yet.
InFlight(sid) ==
  LET cs == {c \in Consumers : deq[c].pc # "idle" /\ deq[c].sid = sid}
  IN IF cs = {} THEN <<>> ELSE deq[CHOOSE c \in cs : TRUE].events

\* The accepted events as a consumer receives them: the remote backend hands
\* out what JSON kept of each.
Accepted(sid) ==
  [i \in 1 .. Len(log[sid]) |->
     IF hasKV THEN JSONparse(JSONstringify(log[sid][i].evt)) ELSE log[sid][i].evt]

Conserved(sid) ==
  Flatten(taken[sid]) \o InFlight(sid) \o QueueOf(sid) = Accepted(sid)

C6_UnknownSessionNoOp ==
  \A sid \in AllSids \ created :
    /\ QueueOf(sid) = <<>>
    /\ taken[sid] = <<>>
    /\ \A c \in Consumers : deq[c].sid = sid => deq[c].events = <<>>

(***************************************************************************)
(* Properties of the dispatcher's schedule (SchedSpec).                    *)
(***************************************************************************)
Range(seq) == {seq[i] : i \in 1 .. Len(seq)}

NoDup(seq) == \A i, j \in 1 .. Len(seq) : i # j => seq[i] # seq[j]

Pos(seq, x) == CHOOSE i \in 1 .. Len(seq) : seq[i] = x

Successors(graph, S) ==
  {graph.edges[i].target : i \in {j \in 1 .. Len(graph.edges) : graph.edges[j].source \in S}}

\* The nodes reached from S along at least one and at most k edges.
RECURSIVE Descendants(_, _, _)
Descendants(graph, S, k) ==
  IF k = 0 THEN {}
  ELSE LET T == Successors(graph, S) IN T \cup Descendants(graph, T, k - 1)

OnCycle(graph) ==
  {n \in NodeIdSet(graph) : n \in Descendants(graph, {n}, Len(graph.nodes))}

\* The nodes of a cycle and the nodes reachable from one.
Tainted(graph) ==
  OnCycle(graph) \cup Descendants(graph, OnCycle(graph), Len(graph.nodes))

Acyclic(graph) == OnCycle(graph) = {}

\* Every edge a visited target has was visited at its source first.
RespectsEdges(graph, seq) ==
  \A i \in 1 .. Len(graph.edges) :
    LET e == graph.edges[i]
    IN e.target \in Range(seq) =>
         /\ e.source \in Range(seq)
         /\ Pos(seq, e.source) < Pos(seq, e.target)

Started(r) == run[r].pc \notin {"idle", "rejected"}

Ended(r) == run[r].pc \in {"doneSent", "returned"}

\* What run r's dispatcher got into the channel of its session.
DispatcherEntries(r) ==
  SelectSeq(log[run[r].sid], LAMBDA e : e.by = "dispatcher" /\ e.run = r)

\* The node ids of run r's node_enter events, in channel order.
Enters(r) ==
  LET es == SelectSeq(DispatcherEntries(r), LAMBDA e : e.evt.type = "node_enter")
  IN [i \in 1 .. Len(es) |-> es[i].evt.node]

\* The channel took every event of run r: the session existed from the
\* run's first enqueue on.
Accepting(r) ==
  \/ hasKV
  \/ DispatcherEntries(r) # <<>> /\ Head(DispatcherEntries(r)).evt = SysPatch

\* C2: on an acyclic graph the run emits node_enter for every node id
\* exactly once, and for every edge the node_enter of its source comes
\* before the node_enter of its target.
C2_AcyclicVisitsAllInOrder ==
  \A r \in Runs :
    LET f == run[r]
    IN Started(r) /\ Acyclic(f.graph) =>
         /\ NoDup(f.visited)
         /\ RespectsEdges(f.graph, f.visited)
         /\ Accepting(r) => Enters(r) = f.visited
         /\ Ended(r) => Range(f.visited) = NodeIdSet(f.graph)

\* A run on an acyclic graph of three nodes and two different edges returned.
C2_Witness ==
  LET f == run[1]
  IN /\ f.pc = "returned"
     /\ Accepting(1)
     /\ Acyclic(f.graph)
     /\ Len(f.graph.nodes) = 3
     /\ Cardinality(Range(f.graph.edges)) = 2
     /\ Len(Enters(1)) = 3

\* C3: on a graph with a cycle no node of the cycle and no node reachable
\* from it is ever visited (no node_enter, no patch, no final state), and the
\* other nodes are visited exactly once each, sources before targets.
C3_CycleNeverVisited ==
  \A r \in Runs :
    LET f == run[r]
        es == SelectSeq(log[f.sid], LAMBDA e : e.run = r)
    IN Started(r) /\ ~Acyclic(f.graph) =>
         /\ Range(f.visited) \cap Tainted(f.graph) = {}
         /\ DOMAIN f.finalStates \cap Tainted(f.graph) = {}
         /\ \A i \in 1 .. Len(es) : es[i].evt.node \notin Tainted(f.graph)
         /\ NoDup(f.visited)
         /\ RespectsEdges(f.graph, f.visited)
         /\ Accepting(r) => Enters(r) = f.visited
         /\ Ended(r) => Range(f.visited) = NodeIdSet(f.graph) \ Tainted(f.graph)

\* A run returned on a graph where one node is on a cycle, a second is
\* reachable from it and the third was visited.
C3_Witness ==
  LET f == run[1]
  IN /\ f.pc = "returned"
     /\ Accepting(1)
     /\ Cardinality(OnCycle(f.graph)) = 1
     /\ Cardinality(Tainted(f.graph)) = 2
     /\ Len(Enters(1)) = 1
     /\ DOMAIN f.finalStates = Range(f.visited)

\* C4 as stated: when a run returns with nodes never visited, each of them
\* is reported to the caller: in the returned final states or in an event
\* of the run.
C4_UnreachableReported ==
  \A r \in Runs :
    LET f == run[r]
        es == SelectSeq(log[f.sid], LAMBDA e : e.run = r)
    IN f.pc = "returned" /\ Accepting(r) =>
         \A n \in NodeIdSet(f.graph) \ Range(f.visited) :
           \/ n \in DOMAIN f.finalStates
           \/ \E i \in 1 .. Len(es) : es[i].evt.node = n \/ n \in Range(es[i].evt.data)

\* The order in which the loop of executeGraph takes nodes off the frontier,
\* whatever the nodes' handlers do.
RECURSIVE walk(_, _, _)
walk(graph, inc, fr) ==
  IF fr = <<>> THEN <<>>
  ELSE LET a == advance(nexts(graph, Head(fr)), inc, Tail(fr))
       IN <<Head(fr)>> \o walk(graph, a[1], a[2])

visitOrder(graph) == walk(graph, initialIncoming(graph), initialFrontier(graph))

\* The tool nodes of run r whose handler raised.
Raised(r) ==
  {n \in DOMAIN run[r].finalStates :
     isTool(nodeOf(run[r].graph, n)) /\ run[r].finalStates[n].status = "error"}

\* C8: a tool handler's exception never leaves the node's dispatch step,
\* and a run in which a handler raised still visits every node the loop
\* would take, still gives each its terminal patch (in the final states and
\* in the channel), and still ends with the session-level done.
C8_ToolRaiseAbsorbed ==
  \A r \in Runs :
    LET f == run[r]
        es == DispatcherEntries(r)
    IN guarded =>
         /\ f.pc # "threw"
         /\ Ended(r) /\ Raised(r) # {} =>
              /\ f.visited = visitOrder(f.graph)
              /\ DOMAIN f.finalStates = Range(f.visited)
              /\ \A n \in Range(f.visited) :
                   \/ isLLM(nodeOf(f.graph, n))
                   \/ /\ f.finalStates[n].status \in {"done", "error", "skipped"}
                      /\ Accepting(r) =>
                           \E i \in 1 .. Len(es) :
                             es[i].evt = Patch(n, f.finalStates[n].status,
                                               f.finalStates[n].data)
              /\ Accepting(r) => es[Len(es)].evt = DoneEvt

\* A run returned in which the handler of a tool node raised and a node
\* downstream of it was visited and patched after it.
C8_Witness ==
  LET f == run[1]
  IN /\ f.pc = "returned"
     /\ Accepting(1)
     /\ \E n \in Raised(1), i \in 1 .. Len(f.graph.edges) :
          /\ f.graph.edges[i].source = n
          /\ f.graph.edges[i].target \in DOMAIN f.finalStates \ {n}

(***************************************************************************)
(* Properties of runs with the adapter (Spec, RerunSpec).                  *)
(***************************************************************************)
\* C1 as stated: a session's channel takes at most one done event, and
\* nothing after it.
C1_SingleDoneLast ==
  \A sid \in AllSids :
    LET dones == {i \in 1 .. Len(log[sid]) : log[sid][i].evt.type = "done"}
    IN /\ Cardinality(dones) <= 1
       /\ \A i \in dones : i = Len(log[sid])

IsPatchOf(e, r, n) == e.run = r /\ e.evt.type = "state_patch" /\ e.evt.node = n

\* C7 as stated: in a session's event sequence no state_patch of a run for
\* a node follows a done or error patch of that run for the same node,
\* whichever producer emitted them.
C7_TerminalAbsorbing ==
  \A r \in Runs :
    LET L == log[run[r].sid]
    IN \A i, j \in 1 .. Len(L) :
         /\ i < j
         /\ IsPatchOf(L[i], r, L[i].evt.node)
         /\ L[i].evt.status \in {"done", "error"}
         => ~IsPatchOf(L[j], r, L[i].evt.node)

LaterStep(L, i, r, n) ==
  /\ L[i].by = "dispatcher" /\ L[i].run = r
  /\ \/ L[i].evt.type = "done"
     \/ L[i].evt.type = "node_enter" /\ L[i].evt.node # n
  /\ \E h \in 1 .. i - 1 :
       L[h].by = "dispatcher" /\ L[h].run = r /\ L[h].evt = NodeEnter(n)

\* The dispatcher of run r reported the request for node n as failed before
\* entry i of L.
FetchFailedBefore(L, i, r, n) ==
  \E e \in 1 .. i - 1 :
    L[e].by = "dispatcher" /\ IsPatchOf(L[e], r, n) /\ L[e].evt.status = "error"

LegacyIds == <<"a">>

LegacyInit == InitWith(BOOLEAN, FALSE)

LegacyNext ==
  \/ createSession("s1")
  \/ "s1" \in created /\ clientSubmits(1, "s1", LegacyIds, SysKinds, {}, MaxSysEdges)
  \/ dispatcherStep(1)
  \/ fetchStep(1)
  \/ \E k \in DOMAIN adapter : adapterStarts(k) \/ adapterResponds(k)
  \/ openStream(1, "s1")
  \/ readerStep(1)

LegacySpec == LegacyInit /\ [][LegacyNext]_vars

LegacyFairSpec ==
  /\ LegacySpec
  /\ WF_vars(dispatcherStep(1))
  /\ WF_vars(fireFetch(1) \/ fetchResolves(1))
  /\ WF_vars(\E k \in DOMAIN adapter : adapterStarts(k) \/ adapterResponds(k))
  /\ WF_vars(readerStep(1))

\* C9 as stated: once a run has been submitted on a created session and a
\* stream reader is attached to it, the reader eventually forwards the
\* session-level done and closes.
C9_ReaderSeesDone ==
  (Started(1) /\ reader[1].pc \in {"polling", "sleeping"})
    ~> (reader[1].pc = "closed" /\ JSONstringify(DoneEvt) \in Range(reader[1].out))

(***************************************************************************)
(* Properties of the adapter.                                              *)
(***************************************************************************)
\* The terminal patches invocation k got into the channel.
TerminalPatchesOf(k) ==
  LET L == log[adapter[k].sid]
  IN {i \in 1 .. Len(L) :
        /\ L[i].by = "adapter" /\ IsPatchOf(L[i], k[1], k[2])
        /\ L[i].evt.status \in {"done", "error"}}

\* C11 as stated: an adapter invocation that has left its handler, on a
\* session the channel accepts events for, has enqueued exactly one terminal
\* patch (done or error) for its node.
C11_OneTerminalPatch ==
  \A k \in DOMAIN adapter :
    /\ adapter[k].pc = "responded"
    /\ hasKV \/ adapter[k].sid \in created
    => Cardinality(TerminalPatchesOf(k)) = 1

(***************************************************************************)
(* The stream reader over a channel that producers fill (StreamSpec).      *)
(***************************************************************************)
StreamEvents == ProducerEvents \cup {DoneEvt}

StreamNext ==
  \/ createSession("s1")
  \/ \E e \in StreamEvents : Produced < MaxEnqueued /\ produce("s1", e)
  \/ \E sid \in ChanSids \cup {""} : openStream(1, sid)
  \/ readerStep(1)
  \/ clientDisconnects(1)

StreamSpec == Init /\ [][StreamNext]_vars

\* The index of the first done frame of seq, or 0.
FirstDone(seq) ==
  LET ds == {i \in 1 .. Len(seq) : seq[i].json.type = "done"}
  IN IF ds = {} THEN 0 ELSE CHOOSE i \in ds : \A j \in ds : i <= j

\* C12: a session's only reader forwards the accepted events, one frame
\* each, in the order they were enqueued; it forwards nothing after a done;
\* it is closed in the step that forwards done, and then everything
\* enqueued before that done has been forwarded.
C12_ReaderForwardsInOrder ==
  \A c \in Consumers :
    LET rd == reader[c]
        all == frames(Accepted(rd.sid))
        out == rd.out
    IN rd.pc \notin {"idle", "rejected"} /\ SingleConsumer(rd.sid) =>
         /\ Len(out) <= Len(all)
         /\ out = SubSeq(all, 1, Len(out))
         /\ \A i \in 1 .. Len(out) - 1 : out[i].json.type # "done"
         /\ FirstDone(out) # 0 =>
              /\ rd.pc = "closed"
              /\ out = SubSeq(all, 1, FirstDone(all))
         /\ rd.pc = "closed" /\ ~rd.aborted => FirstDone(out) = Len(out) /\ out # <<>>

\* The reader closed on a done that it took in one batch with an event
\* enqueued after it.
C12_Witness ==
  LET rd == reader[1]
  IN /\ rd.pc = "closed"
     /\ Len(rd.out) = 2
     /\ rd.out[2] = JSONstringify(DoneEvt)
     /\ Len(Flatten(taken["s1"])) = 3

(***************************************************************************)
(* Runs on graphs with nodes that name tools, registered or not            *)
(* (RegistrySpec).                                                         *)
(***************************************************************************)
RegistryKinds == {"plain", "calc", "search"}

RegistryNext ==
  \/ createSession("s1")
  \/ clientSubmits(1, "s1", SysIds, RegistryKinds, {}, MaxSysEdges)
  \/ dispatcherStep(1)

RegistrySpec == Init /\ [][RegistryNext]_vars

\* The nodes of run r's graph that name a tool the registry does not have.
UnknownToolNodes(r) ==
  {n \in NodeIdSet(run[r].graph) :
     LET node == nodeOf(run[r].graph, n)
     IN node.tool # "" /\ node.tool \notin TOOLS /\ ~isLLM(node)}

\* C13 as stated: a visited node that names a tool missing from the
\* registry gets a final state and a patch of status error whose text names
\* the tool, never skipped or done.
C13_UnknownToolIsError ==
  \A r \in Runs :
    LET f == run[r]
        L == DispatcherEntries(r)
    IN \A n \in UnknownToolNodes(r) :
         /\ n \in DOMAIN f.finalStates =>
              /\ f.finalStates[n].status = "error"
              /\ nodeOf(f.graph, n).tool \in Range(f.finalStates[n].data)
         /\ \A i \in 1 .. Len(L) :
              IsPatchOf(L[i], r, n) => L[i].evt.status \notin {"skipped", "done"}

\* C14 as stated: a stream request for a session id that createSession
\* never returned is rejected: no reader polls the channel of such an id.
C14_UnknownStreamRejected ==
  \A c \in Consumers :
    reader[c].sid \notin created => reader[c].pc \in {"idle", "rejected"}

(***************************************************************************)
(* Run submissions with and without a session id and a graph (SubmitSpec). *)
(***************************************************************************)
SubmitNext ==
  \/ createSession("s1")
  \/ \E r \in Runs, sid \in {"", "s1"} :
       \/ clientSubmits(r, sid, RerunIds, RerunKinds, {}, MaxSysEdges)
       \/ submitRun(r, sid, NoGraph)
  \/ \E r \in Runs : dispatcherStep(r)

SubmitSpec == Init /\ [][SubmitNext]_vars

\* C15 as stated: a submission without a session id or without a graph is
\* rejected and has no effect: the run dispatches nothing and no event of
\* it, not even done, is in any session's channel.
C15_BadSubmissionRejected ==
  \A r \in Runs :
    run[r].pc = "rejected" \/ run[r].noGraph =>
      /\ run[r].pc = "rejected"
      /\ run[r].visited = <<>>
      /\ \A sid \in AllSids : \A i \in 1 .. Len(log[sid]) : log[sid][i].run # r

\* The batches of sid: those returned, then those held by calls in progress.
BatchesOf(sid) ==
  LET held == SelectSeq([c \in Consumers |-> deq[c]],
                        LAMBDA f : f.pc # "idle" /\ f.sid = sid /\ f.events # <<>>)
  IN [i \in 1 .. Len(taken[sid]) |-> taken[sid][i].events]
       \o [i \in 1 .. Len(held) |-> held[i].events]

IsPrefix(p, seq) == Len(p) <= Len(seq) /\ p = SubSeq(seq, 1, Len(p))

\* seq is the concatenation, in some order, of the batches indexed by I.
RECURSIVE Tiles(_, _, _)
Tiles(seq, batches, I) ==
  IF I = {} THEN seq = <<>>
  ELSE \E i \in I :
         /\ IsPrefix(batches[i], seq)
         /\ Tiles(SubSeq(seq, Len(batches[i]) + 1, Len(seq)), batches, I \ {i})

\* C16 as stated: whatever consumers call dequeueBatch on a session, the
\* batches taken are contiguous runs of the accepted events that together
\* with the events still queued make up the accepted sequence: no event
\* twice, none lost, no batch interleaved with another.
C16_BatchesAtomic ==
  \A sid \in AllSids :
    LET all == Accepted(sid)
        q == QueueOf(sid)
        n == Len(all) - Len(q)
    IN /\ n >= 0
       /\ q = SubSeq(all, n + 1, Len(all))
       /\ Tiles(SubSeq(all, 1, n), BatchesOf(sid), 1 .. Len(BatchesOf(sid)))

(***************************************************************************)
(* The two backends side by side (EquivSpec): every operation is applied   *)
(* to the in-process Map and to the remote lists, each call running to     *)
(* completion before the next.  Here log is the history of the enqueue     *)
(* calls and taken the history of the dequeueBatch calls that returned     *)
(* something, with the batch of each backend.                              *)
(***************************************************************************)
\* enqueue of lines 40-42 on the Map S, and of line 36 on the lists Q.
memEnqueue(S, sid, evt) ==
  IF sid \in DOMAIN S THEN [S EXCEPT ![sid] = Append(@, evt)] ELSE S

kvEnqueue(Q, sid, evt) == [Q EXCEPT ![sid] = Append(@, JSONstringify(evt))]

\* dequeueBatch of lines 57-60 on the Map S.
memDequeue(S, sid, max) ==
  IF sid \notin DOMAIN S THEN [events |-> <<>>, store |-> S]
  ELSE LET n == Min(IF max < 0 THEN 0 ELSE max, Len(S[sid]))
       IN [events |-> SubSeq(S[sid], 1, n),
           store |-> [S EXCEPT ![sid] = SubSeq(@, n + 1, Len(@))]]

\* dequeueBatch of lines 49-55 on the lists Q, with no other caller between
\* its lpops.
RECURSIVE kvDequeue(_, _, _)
kvDequeue(Q, sid, max) ==
  IF max <= 0 \/ Q[sid] = <<>> THEN [events |-> <<>>, store |-> Q]
  ELSE LET rest == kvDequeue([Q EXCEPT ![sid] = Tail(@)], sid, max - 1)
       IN [events |-> <<JSONparse(Head(Q[sid]))>> \o rest.events, store |-> rest.store]

bothCreate(id) ==
  /\ id \in SessionIds \ created
  /\ created' = created \cup {id}
  /\ SESSIONS' = (id :> <<>>) @@ SESSIONS
  /\ kvSession' = kvSession \cup {id}
  /\ UNCHANGED <<hasKV, guarded, kvQueue, log, deq, taken, run, adapter, reader>>

bothEnqueue(sid, evt) ==
  /\ Produced < MaxEnqueued
  /\ SESSIONS' = memEnqueue(SESSIONS, sid, evt)
  /\ kvQueue' = kvEnqueue(kvQueue, sid, evt)
  /\ log' = [log EXCEPT ![sid] = Append(@, LogEntry(evt, "producer", 0))]
  /\ UNCHANGED <<hasKV, guarded, kvSession, created, deq, taken, run, adapter, reader>>

bothDequeue(sid, max) ==
  LET m == memDequeue(SESSIONS, sid, max)
      k == kvDequeue(kvQueue, sid, max)
  IN /\ SESSIONS' = m.store
     /\ kvQueue' = k.store
     /\ taken' = IF m.events = <<>> /\ k.events = <<>> THEN taken
                 ELSE [taken EXCEPT ![sid] =
                         Append(@, [by |-> 0, events |-> k.events, mem |-> m.events])]
     /\ UNCHANGED <<hasKV, guarded, kvSession, created, log, deq, run, adapter, reader>>

EquivNext ==
  \/ bothCreate("s1")
  \/ \E sid \in ChanSids, e \in ProducerEvents : bothEnqueue(sid, e)
  \/ \E sid \in ChanSids, max \in 1 .. MaxBatch : bothDequeue(sid, max)

EquivSpec == Init /\ [][EquivNext]_vars

\* C17 as stated: for every sequence of createSession, enqueue and
\* dequeueBatch operations, on created and never-created ids, every
\* dequeueBatch call returns the same batch from both backends.
C17_BackendsAgree ==
  \A sid \in AllSids : \A i \in 1 .. Len(taken[sid]) :
    taken[sid][i].events = taken[sid][i].mem

(***************************************************************************)
(* Runs on graphs whose node ids include canonical array indices           *)
(* (OrderSpec).                                                            *)
(***************************************************************************)
OrderIds == <<"2", "1", "b">>

OrderNext ==
  \/ createSession("s1")
  \/ clientSubmits(1, "s1", OrderIds, RerunKinds, {}, MaxSysEdges)
  \/ dispatcherStep(1)

OrderSpec == Init /\ [][OrderNext]_vars

\* The node ids in the order graph.nodes lists them.
ListedIds(graph) ==
  FirstOccurrences([i \in 1 .. Len(graph.nodes) |-> graph.nodes[i].id], {})

\* FIFO Kahn order with the frontier seeded in listing order.
ListedOrder(graph) ==
  walk(graph, initialIncoming(graph),
       SelectSeq(ListedIds(graph), LAMBDA k : initialIncoming(graph)[k] = 0))

\* C18 as stated: the nodes are visited in the FIFO Kahn order whose
\* frontier is seeded with the zero-in-degree nodes in the order the nodes
\* are listed.
C18_VisitsInListedOrder ==
  \A r \in Runs :
    LET f == run[r]
    IN Started(r) =>
         /\ IsPrefix(f.visited, ListedOrder(f.graph))
         /\ Ended(r) => f.visited = ListedOrder(f.graph)

(***************************************************************************)
(* Runs on graphs of tool nodes, two of which may carry the same tool and  *)
(* params (ToolSpec).                                                      *)
(***************************************************************************)
ToolKinds == {"calc", "calcBad", "calcRandom", "weather", "weatherParis", "weatherProto"}

ToolNext ==
  \/ createSession("s1")
  \/ clientSubmits(1, "s1", SysIds, ToolKinds, {}, MaxSysEdges)
  \/ dispatcherStep(1)

ToolSpec == Init /\ [][ToolNext]_vars

\* C19 as stated: two invocations of one registered tool with identical
\* params have identical results, and weather gives the table entry of a
\* listed city and the default 28, Clear of every other city.
C19_ToolsIdempotent ==
  \A r \in Runs :
    LET f == run[r]
        tooled == {n \in DOMAIN f.finalStates : isTool(nodeOf(f.graph, n))}
    IN /\ \A n1, n2 \in tooled :
            /\ nodeOf(f.graph, n1).tool = nodeOf(f.graph, n2).tool
            /\ nodeOf(f.graph, n1).params = nodeOf(f.graph, n2).params
            => f.finalStates[n1] = f.finalStates[n2]
       /\ \A n \in tooled :
            LET node == nodeOf(f.graph, n)
                city == IF node.params.city = NoCity THEN "Delhi" ELSE node.params.city
            IN node.tool = "weather" =>
                 f.finalStates[n].data =
                   IF city \in WeatherCities THEN WEATHER(city) ELSE <<"28", "Clear">>

\* The first part alone: identical invocations have identical results.
C19_SameParamsSameResult ==
  \A r \in Runs :
    LET f == run[r]
        tooled == {n \in DOMAIN f.finalStates : isTool(nodeOf(f.graph, n))}
    IN \A n1, n2 \in tooled :
         /\ nodeOf(f.graph, n1).tool = nodeOf(f.graph, n2).tool
         /\ nodeOf(f.graph, n1).params = nodeOf(f.graph, n2).params
         => f.finalStates[n1] = f.finalStates[n2]

(***************************************************************************)
(* Order of the events of adjacent nodes (Spec).                           *)
(***************************************************************************)
HasEdge(graph, u, v) ==
  \E i \in 1 .. Len(graph.edges) :
    graph.edges[i].source = u /\ graph.edges[i].target = v

\* C20: in the channel of a run, for every edge u -> v every event the
\* dispatcher emitted for u (node_enter, planning or running patch, its
\* terminal patch) comes before the node_enter and every patch of v,
\* whoever emitted it; and the planning patch of an LLM node comes before
\* every terminal patch of the tool nodes downstream of it.
C20_EdgeOrdersEvents ==
  \A r \in Runs :
    LET f == run[r]
        L == log[f.sid]
        ofRun(i) == L[i].run = r /\ L[i].evt.node # ""
    IN Started(r) =>
         \A i, j \in 1 .. Len(L) :
           /\ ofRun(i) /\ ofRun(j) /\ L[j].by = "dispatcher" =>
                /\ HasEdge(f.graph, L[j].evt.node, L[i].evt.node) => j < i
                /\ /\ isLLM(nodeOf(f.graph, L[j].evt.node))
                   /\ L[j].evt.status = "planning"
                   /\ L[i].evt.node \in
                        Descendants(f.graph, {L[j].evt.node}, Len(f.graph.edges))
                   /\ isTool(nodeOf(f.graph, L[i].evt.node))
                   /\ L[i].evt.status \in {"done", "error"}
                   => j < i

\* A run of an LLM node with a tool node downstream has returned, and the
\* channel holds the planning patch of the first and the terminal patch of
\* the second.
C20_Witness ==
  LET f == run[1]
      L == log[f.sid]
  IN /\ f.pc = "returned"
     /\ \E i, j \in 1 .. Len(L) :
          /\ L[j].by = "dispatcher" /\ L[j].run = 1 /\ L[j].evt.status = "planning"
          /\ L[i].by = "dispatcher" /\ L[i].run = 1 /\ L[i].evt.status = "done"
          /\ HasEdge(f.graph, L[j].evt.node, L[i].evt.node)
          /\ isLLM(nodeOf(f.graph, L[j].evt.node))
          /\ isTool(nodeOf(f.graph, L[i].evt.node))

(***************************************************************************)
(* The events of one call of executeGraph (Spec).                          *)
(***************************************************************************)
\* The positions of the done events among run r's dispatcher events.
DonesOf(r) ==
  {i \in 1 .. Len(DispatcherEntries(r)) : DispatcherEntries(r)[i].evt.type = "done"}

\* C21: a call of executeGraph enqueues done at most once, only when its
\* loop has ended and after every other event of its dispatcher; a call
\* whose loop has ended on a session that took its events has enqueued it
\* exactly once.
C21_OneDonePerCall ==
  \A r \in Runs :
    /\ Cardinality(DonesOf(r)) <= 1
    /\ \A i \in DonesOf(r) : i = Len(DispatcherEntries(r)) /\ Ended(r)
    /\ Ended(r) /\ Accepting(r) => Cardinality(DonesOf(r)) = 1

\* A call on a graph with a cycle next to a visited node has returned with
\* its done in the channel.
C21_Witness ==
  /\ run[1].pc = "returned"
  /\ ~Acyclic(run[1].graph)
  /\ Len(run[1].visited) = 1
  /\ DonesOf(1) # {}

\* The positions in run r's session of the node_enter events of r for n.
EntersOf(r, n) ==
  LET L == log[run[r].sid]
  IN {i \in 1 .. Len(L) : L[i].run = r /\ L[i].evt.type = "node_enter" /\ L[i].evt.node = n}

\* C22: every node a call has visited has exactly one node_enter event of
\* that call, and it comes before every state_patch of the call for that
\* node, whoever emitted the patch and whatever the node's kind and outcome.
C22_OneEnterBeforePatches ==
  \A r \in Runs :
    LET L == log[run[r].sid]
    IN Started(r) /\ Accepting(r) =>
         /\ \A n \in Range(run[r].visited) :
              /\ Cardinality(EntersOf(r, n)) = 1
              /\ \A i \in 1 .. Len(L) :
                   IsPatchOf(L[i], r, n) => \A j \in EntersOf(r, n) : j < i
         /\ \A i \in 1 .. Len(L) :
              L[i].run = r /\ L[i].evt.node \notin {"", "sys"} =>
                L[i].evt.node \in Range(run[r].visited)

\* A call has returned after a skipped node and an LLM node whose request
\* failed.
C22_Witness ==
  /\ run[1].pc = "returned"
  /\ Accepting(1)
  /\ Len(run[1].visited) = 2
  /\ \E i, j \in 1 .. Len(DispatcherEntries(1)) :
       /\ DispatcherEntries(1)[i].evt.status = "skipped"
       /\ DispatcherEntries(1)[j].evt.status = "error"

(***************************************************************************)
(* The patches of one node (SchedSpec, Spec).                              *)
(***************************************************************************)
\* The state_patch events run r's dispatcher enqueued for node n, in order.
PatchesOf(r, n) ==
  SelectSeq(DispatcherEntries(r), LAMBDA e : e.evt.type = "state_patch" /\ e.evt.node = n)

\* C23: for a visited node with a registered tool that is not an LLM node
\* the dispatcher's patches are a running patch and then one terminal
\* patch, done with the handler's result or error with its message, and
\* that terminal patch is the node's entry in the final-state map.
C23_ToolNodeTwoPatches ==
  \A r \in Runs :
    Started(r) /\ Accepting(r) =>
      \A n \in Range(run[r].visited) :
        LET node == nodeOf(run[r].graph, n)
            P == PatchesOf(r, n)
            res == InvokeTool(node.tool, node.params)
        IN isTool(node) /\ ~isLLM(node) =>
             /\ Len(P) <= 2
             /\ Len(P) >= 1 => P[1].evt.status = "running" /\ P[1].evt.data = <<node.tool>>
             /\ Len(P) = 2 =>
                  /\ P[2].evt.status = (IF res.ok THEN "done" ELSE "error")
                  /\ P[2].evt.data = res.data
             /\ n \in DOMAIN run[r].finalStates =>
                  /\ Len(P) = 2
                  /\ run[r].finalStates[n] =
                       [status |-> P[2].evt.status, data |-> P[2].evt.data]
             /\ Ended(r) => n \in DOMAIN run[r].finalStates

\* A call has returned after a tool node whose handler returned and one
\* whose handler raised.
C23_Witness ==
  /\ run[1].pc = "returned"
  /\ Accepting(1)
  /\ \E n1, n2 \in DOMAIN run[1].finalStates :
       /\ run[1].finalStates[n1].status = "done"
       /\ run[1].finalStates[n2].status = "error"
       /\ Len(PatchesOf(1, n1)) = 2
       /\ Len(PatchesOf(1, n2)) = 2

\* C24: a visited node that is neither an LLM node nor a node with a
\* registered tool gets one patch, skipped, as the dispatcher's next event
\* after its node_enter; no other patch of the call names it, the skipped
\* patch is its entry in the final-state map, and no request to the adapter
\* is made for it.
C24_PlainNodeSkipped ==
  \A r \in Runs :
    Started(r) /\ Accepting(r) =>
      \A n \in Range(run[r].visited) :
        LET node == nodeOf(run[r].graph, n)
            D == DispatcherEntries(r)
            L == log[run[r].sid]
        IN ~isLLM(node) /\ ~isTool(node) =>
             /\ \A i \in 1 .. Len(L) :
                  IsPatchOf(L[i], r, n) =>
                    L[i].by = "dispatcher" /\ L[i].evt = Patch(n, "skipped", <<>>)
             /\ Len(PatchesOf(r, n)) <= 1
             /\ \A i \in 1 .. Len(D) :
                  D[i].evt = Patch(n, "skipped", <<>>) => i > 1 /\ D[i - 1].evt = NodeEnter(n)
             /\ n \in DOMAIN run[r].finalStates =>
                  /\ Len(PatchesOf(r, n)) = 1
                  /\ run[r].finalStates[n] = [status |-> "skipped", data |-> <<>>]
             /\ Ended(r) => n \in DOMAIN run[r].finalStates
             /\ <<r, n>> \notin DOMAIN adapter

\* A call has returned after a plain node downstream of an LLM node whose
\* adapter was invoked.
C24_Witness ==
  /\ run[1].pc = "returned"
  /\ Accepting(1)
  /\ \E u, n \in DOMAIN run[1].finalStates :
       /\ HasEdge(run[1].graph, u, n)
       /\ <<1, u>> \in DOMAIN adapter
       /\ run[1].finalStates[n].status = "skipped"
       /\ Len(PatchesOf(1, n)) = 1

\* C25 as stated: when the loop of a call has ended, the final-state map
\* has exactly the visited node ids as keys; the entry of a tool or plain
\* node is the terminal patch the dispatcher enqueued for it, the entry of
\* an LLM node whose request failed is the error patch the dispatcher
\* enqueued, and the entry of an LLM node whose request got its response is
\* the provisional started state.
C25_FinalStatesLastPatch ==
  \A r \in Runs :
    Ended(r) /\ Accepting(r) =>
      /\ DOMAIN run[r].finalStates = Range(run[r].visited)
      /\ \A n \in DOMAIN run[r].finalStates :
           LET P == PatchesOf(r, n)
               last == P[Len(P)].evt
           IN IF isLLM(nodeOf(run[r].graph, n)) /\ last.status # "error"
              THEN run[r].finalStates[n] = [status |-> "started", data |-> <<>>]
              ELSE run[r].finalStates[n] = [status |-> last.status, data |-> last.data]

(***************************************************************************)
(* The tools of an adapter invocation (Spec).                              *)
(***************************************************************************)
\* C26 as stated: the request the dispatcher sends for an LLM node carries
\* the tool names of the tool-labelled nodes adjacent to it, and the tools
\* the adapter binds for the collaborator are that set.
C26_AdapterBindsConnectedTools ==
  \A k \in DOMAIN adapter :
    LET want == connectedTools(run[k[1]].graph, k[2])
    IN IF adapter[k].pc = "sent"
       THEN adapter[k].tools = want
       ELSE Range(adapter[k].bound) = Range(want)

(***************************************************************************)
(* The dispatcher's side of an LLM node (Spec).                            *)
(***************************************************************************)
\* The dispatcher's patches of every visited LLM node are its planning
\* patch and at most one more, an error; a call that caught a rejection can
\* go on; and a call that has left the loop has visited what the loop
\* visits on its graph whatever the requests did, and has enqueued done.
LLMPatchesInv ==
  \A r \in Runs :
    Started(r) /\ Accepting(r) =>
      /\ \A n \in Range(run[r].visited) :
           LET P == PatchesOf(r, n)
           IN isLLM(nodeOf(run[r].graph, n)) =>
                /\ Len(P) <= 2
                /\ Len(P) >= 1 => P[1].evt = Patch(n, "planning", <<>>)
                /\ Len(P) = 2 => P[2].evt.status = "error"
      /\ run[r].pc = "llmError" => ENABLED afterFetchError(r)
      /\ Ended(r) => run[r].visited = visitOrder(run[r].graph) /\ DonesOf(r) # {}

\* The state_patch events of run r's dispatcher for node n in the sequence L.
DispatcherPatchesIn(L, r, n) ==
  SelectSeq(L, LAMBDA e : /\ e.by = "dispatcher" /\ e.run = r
                          /\ e.evt.type = "state_patch" /\ e.evt.node = n)

\* A step in which the request of run r's current node fails adds exactly
\* the dispatcher's error patch of that node to the channel.
RejectionStep(r) ==
  run[r].pc = "fetching" /\ run'[r].pc = "llmError" =>
    /\ Len(log'[run[r].sid]) = Len(log[run[r].sid]) + 1
    /\ LET e == log'[run[r].sid][Len(log'[run[r].sid])]
       IN /\ e.by = "dispatcher" /\ e.run = r
          /\ e.evt.type = "state_patch" /\ e.evt.node = run[r].nid
          /\ e.evt.status = "error"

\* A step in which the request gets its response adds no patch of the
\* dispatcher for that node: the next dispatcher event is the node_enter of
\* the next node or done.
ResponseStep(r) ==
  run[r].pc = "fetching" /\ run'[r].pc \notin {"fetching", "llmError"} =>
    /\ DispatcherPatchesIn(log'[run[r].sid], r, run[r].nid) = PatchesOf(r, run[r].nid)
    /\ Len(PatchesOf(r, run[r].nid)) = 1
    /\ run[r].nid \in DOMAIN run'[r].finalStates

\* C27: when the request of an LLM node fails or is aborted the dispatcher
\* enqueues exactly one error patch for the node, goes on with the
\* successors and enqueues done; when the request gets its response the
\* dispatcher enqueues no terminal patch for the node.
C27_RejectionReportedOnce ==
  /\ []LLMPatchesInv
  /\ [][\A r \in Runs : Accepting(r) => RejectionStep(r) /\ ResponseStep(r)]_vars

\* A call has returned after an LLM node whose request failed and after the
\* node downstream of it.
C27_Witness ==
  /\ run[1].pc = "returned"
  /\ Accepting(1)
  /\ Len(run[1].visited) = 2
  /\ HasEdge(run[1].graph, run[1].visited[1], run[1].visited[2])
  /\ Len(PatchesOf(1, run[1].visited[1])) = 2
  /\ PatchesOf(1, run[1].visited[1])[2].evt.status = "error"

(***************************************************************************)
(* The adapter on its own: a request to POST /api/llm for a node of an     *)
(* existing session, with any tool list and any plan (AdapterSpec).        *)
(***************************************************************************)
AdapterKeys == {<<1, "a">>}
RequestedTools ==
  {NoTools, <<>>, <<"calc">>, <<"weather", "nope">>, <<"nope">>, <<"calc", "constructor">>}
AdapterTokens == {"x", "y"}

\* The plans of up to MaxCalls calls.
AdapterPlans ==
  UNION {[1 .. n -> CallPalette] : n \in 0 .. MaxCalls}

\* A request arrives with session_id, node_id, messages and tools.
postLLM(k, sid, toolNames) ==
  /\ k \notin DOMAIN adapter
  /\ adapter' = (k :> [NewInvocation(sid, k[2], <<SystemPrompt>>) EXCEPT !.tools = toolNames])
                @@ adapter
  /\ UNCHANGED <<hasKV, guarded, deq, taken, run, reader>>
  /\ UNCHANGED chanVars

AdapterNext ==
  \/ createSession("s1")
  \/ \E k \in AdapterKeys, tn \in RequestedTools :
       (hasKV \/ "s1" \in created) /\ postLLM(k, "s1", tn)
  \/ \E k \in DOMAIN adapter :
       \/ adapterStarts(k)
       \/ \E calls \in AdapterPlans : planReturns(k, calls)
       \/ runToolCalls(k)
       \/ \E t \in AdapterTokens : tokenArrives(k, t)
       \/ streamEnds(k)
       \/ collaboratorThrows(k)
       \/ adapterResponds(k)

AdapterSpec == Init /\ [][AdapterNext]_vars

\* The patches invocation k has enqueued, in channel order.
AdapterPatches(k) ==
  LET es == SelectSeq(log[adapter[k].sid],
                      LAMBDA e : /\ e.by = "adapter" /\ e.run = k[1]
                                 /\ e.evt.type = "state_patch" /\ e.evt.node = k[2])
  IN [i \in 1 .. Len(es) |-> es[i].evt]

\* S is the beginning of one of the two sequences, or of one cut by error.
AdapterSequence(S) ==
  /\ \A i \in 1 .. Len(S) - 1 : S[i].status \notin {"done", "error"}
  /\ \/ S = <<>>
     \/ /\ S[1].status = "tool_calling"
        /\ Len(S) >= 2 => S[2].status \in {"tool_results", "error"}
        /\ \A i \in 3 .. Len(S) : S[i].status \in {"answering", "done", "error"}
     \/ \A i \in 1 .. Len(S) : S[i].status \in {"generating", "done", "error"}

\* C28 as stated: the patches of an adapter invocation are, in order,
\* tool_calling, tool_results, any number of answering, done, or any number
\* of generating, done, or one of these cut short by a single error;
\* nothing follows done or error, and an invocation that has ended ends in
\* one of the two.
C28_AdapterPatchOrder ==
  \A k \in DOMAIN adapter :
    LET S == AdapterPatches(k)
    IN /\ AdapterSequence(S)
       /\ adapter[k].pc \in {"finished", "failed", "responded"} =>
            /\ S # <<>>
            /\ S[Len(S)].status \in {"done", "error"}
       /\ adapter[k].pc \notin {"finished", "failed", "responded"} =>
            \A i \in 1 .. Len(S) : S[i].status \notin {"done", "error"}

\* The order alone: whatever an invocation has enqueued is the beginning
\* of one of the two sequences or of one cut by error.
C28_OrderOfPatches ==
  \A k \in DOMAIN adapter : AdapterSequence(AdapterPatches(k))

\* The first n tokens of ts, one after the other.
RECURSIVE Concat(_, _)
Concat(ts, n) == IF n = 0 THEN "" ELSE Concat(ts, n - 1) \o ts[n]

\* The answering and generating patches among S.
Partials(S) == SelectSeq(S, LAMBDA e : e.status \in {"answering", "generating"})

\* C29: the k-th answering or generating patch of an invocation carries the
\* concatenation of the first k tokens received, one patch per token, so
\* each extends the one before by one token; the done patch carries the
\* concatenation of all tokens received, the empty string when there were
\* none.
C29_PartialsAccumulate ==
  \A k \in DOMAIN adapter :
    LET S == AdapterPatches(k)
        P == Partials(S)
        ts == adapter[k].chunks
    IN /\ Len(P) = Len(ts)
       /\ \A i \in 1 .. Len(P) : P[i].data = <<Concat(ts, i)>>
       /\ \A i \in 2 .. Len(P) : P[i].data[1] = P[i - 1].data[1] \o ts[i]
       /\ \A i \in 1 .. Len(S) :
            S[i].status = "done" => S[i].data = <<Concat(ts, Len(ts))>>
       /\ adapter[k].pc = "finished" => S # <<>> /\ S[Len(S)].status = "done"

\* An invocation has answered with two different tokens after a tool call.
C29_Witness ==
  \E k \in DOMAIN adapter :
    /\ adapter[k].pc = "finished"
    /\ adapter[k].chunks = <<"x", "y">>
    /\ adapter[k].calls # <<>>
    /\ AdapterPatches(k)[Len(AdapterPatches(k))].data = <<"xy">>

\* An invocation has answered without receiving a token.
C29_NoToken ==
  \E k \in DOMAIN adapter :
    /\ adapter[k].pc = "finished"
    /\ adapter[k].chunks = <<>>
    /\ AdapterPatches(k)[Len(AdapterPatches(k))].data = <<"">>

\* C30 as stated: the tools an invocation binds for the collaborator are
\* the requested names that are registered, all registered tools when the
\* request has no tool list or an empty one, and never a name that is not
\* registered.
C30_BindsRegisteredRequested ==
  \A k \in DOMAIN adapter :
    LET requested == adapter[k].tools
        registered == {AvailableTools[i] : i \in 1 .. Len(AvailableTools)}
    IN adapter[k].pc # "sent" =>
         Range(adapter[k].bound) =
           IF requested = NoTools \/ requested = <<>> THEN registered
           ELSE Range(requested) \cap registered

\* The same for requests that name no key inherited from Object.prototype.
C30_OwnKeysOnly ==
  \A k \in DOMAIN adapter :
    LET requested == adapter[k].tools
        registered == {AvailableTools[i] : i \in 1 .. Len(AvailableTools)}
    IN /\ adapter[k].pc # "sent"
       /\ requested # NoTools => Range(requested) \cap ObjectPrototypeKeys = {}
       => Range(adapter[k].bound) =
            IF requested = NoTools \/ requested = <<>> THEN registered
            ELSE Range(requested) \cap registered

(***************************************************************************)
(* The tool calls of a plan (AdapterSpec).                                 *)
(***************************************************************************)
\* What the loop owes for one call: the handler's result for a registered
\* tool, a result tagged error naming the tool for any other.
OwedResult(call) ==
  IF call.name = "calc" THEN toolCalc(call.args).data
  ELSE IF call.name = "weather" THEN toolWeather(call.args).data
       ELSE <<"error", "Unknown tool " \o call.name>>

RECURSIVE OwedResults(_)
OwedResults(calls) ==
  IF calls = <<>> THEN <<>>
  ELSE <<Head(calls).name>> \o OwedResult(Head(calls)) \o OwedResults(Tail(calls))

\* A registered handler throws on this call.
ThrowingCall(call) ==
  \/ call.name = "calc" /\ ~toolCalc(call.args).ok
  \/ call.name = "weather" /\ ~toolWeather(call.args).ok

\* C31: the tool_results patch of an invocation carries, for every call of
\* the plan and in call order, the call's name and its result, the result
\* of a call naming an unregistered tool being tagged error and naming the
\* tool; and the tool loop ends in error only when a registered handler
\* threw, never because a tool was unknown.
C31_UnknownToolTagged ==
  \A k \in DOMAIN adapter :
    LET S == AdapterPatches(k)
        calls == adapter[k].calls
    IN /\ \A i \in 1 .. Len(S) :
            S[i].status = "tool_results" => S[i].data = OwedResults(calls)
       /\ Len(S) >= 2 /\ S[1].status = "tool_calling" /\ S[2].status = "error" =>
            \E i \in 1 .. Len(calls) : ThrowingCall(calls[i])
       /\ adapter[k].pc \in {"streaming", "finished"} /\ calls # <<>> =>
            Len(S) >= 2 /\ S[2].status = "tool_results"

\* An invocation has answered after a plan whose first call names an
\* unregistered tool and whose second call is a calc that returned.
C31_Witness ==
  \E k \in DOMAIN adapter :
    /\ adapter[k].pc = "finished"
    /\ Len(adapter[k].calls) = 2
    /\ adapter[k].calls[1].name = "nope"
    /\ adapter[k].calls[2].name = "calc"
    /\ AdapterPatches(k)[2].data = <<"nope", "error", "Unknown tool nope", "calc", "14">>

(***************************************************************************)
(* The reader after its client has gone (StreamSpec, and the earlier       *)
(* reader in LegacyStreamSpec).                                            *)
(***************************************************************************)
LegacyStreamSpec == LegacyInit /\ [][StreamNext]_vars

\* The number of events consumers have removed from the queue of sid.
Removed(sid) == Len(Accepted(sid)) - Len(QueueOf(sid))

\* C32 as stated: a reader whose client has disconnected starts no
\* dequeueBatch call, and the events enqueued after the disconnect stay in
\* the queue.
C32_StopsAtDisconnect ==
  \A c \in Consumers :
    reader[c].aborted /\ SingleConsumer(reader[c].sid) =>
      /\ ~reader[c].late
      /\ Removed(reader[c].sid) <= reader[c].abortedAt

\* The first half alone: no call is started after the disconnect.
C32_NoNewCall == \A c \in Consumers : ~reader[c].late

\* The second half alone.
C32_LaterEventsStay ==
  \A c \in Consumers :
    reader[c].aborted /\ SingleConsumer(reader[c].sid) =>
      Removed(reader[c].sid) <= reader[c].abortedAt

(***************************************************************************)
(* One node at a time (Spec).                                              *)
(***************************************************************************)
\* C33: among the events the dispatcher of a run enqueues, the events of
\* one node are contiguous: between two events of a node there is no event
\* of another node, and none that names no node.
C33_OneNodeAtATime ==
  \A r \in Runs :
    LET D == DispatcherEntries(r)
    IN \A i, j \in 1 .. Len(D) :
         /\ i < j
         /\ D[i].evt.node = D[j].evt.node
         /\ D[i].evt.node \notin {"", "sys"}
         => \A m \in i .. j : D[m].evt.node = D[i].evt.node

\* A call has returned after two independent nodes, the first an LLM node
\* whose request failed: three dispatcher events, then the other node's.
C33_Witness ==
  LET D == DispatcherEntries(1)
  IN /\ run[1].pc = "returned"
     /\ run[1].graph.edges = <<>>
     /\ Len(D) >= 7
     /\ D[2].evt.node = D[4].evt.node
     /\ D[4].evt.status = "error"
     /\ D[5].evt.type = "node_enter"
     /\ D[5].evt.node # D[2].evt.node

(***************************************************************************)
(* Runs on arbitrary graphs: cycles, self-loops, duplicate edges and edges *)
(* that name an id absent from graph.nodes (AnyGraphSpec).                 *)
(***************************************************************************)
AnyIds == <<"a", "b">>
AbsentIds == {"z"}

AnyGraphNext ==
  \/ createSession("s1")
  \/ clientSubmits(1, "s1", AnyIds, RerunKinds, AbsentIds, MaxEdges)
  \/ dispatcherStep(1)

AnyGraphSpec == Init /\ [][AnyGraphNext]_vars

\* The ids a graph names: those of its nodes and the ends of its edges.
NamedIds(graph) ==
  NodeIdSet(graph) \cup {graph.edges[i].source : i \in 1 .. Len(graph.edges)}
                   \cup {graph.edges[i].target : i \in 1 .. Len(graph.edges)}

\* C34: on any graph no id is visited twice in a run, no in-degree counter
\* is ever negative, and the loop makes at most one iteration per id the
\* graph names.
C34_VisitedOnceCountsNonNegative ==
  \A r \in Runs :
    /\ NoDup(run[r].visited)
    /\ \A t \in DOMAIN run[r].incoming : run[r].incoming[t] >= 0
    /\ Range(run[r].visited) \subseteq NamedIds(run[r].graph)
    /\ Len(run[r].visited) <= Cardinality(NamedIds(run[r].graph))

\* A call has returned on a graph with a duplicated edge, a self-loop and
\* an edge to an absent id, after visiting two ids.
C34_Witness ==
  LET g == run[1].graph
  IN /\ run[1].pc = "returned"
     /\ Len(run[1].visited) = 2
     /\ \E i, j \in 1 .. Len(g.edges) : i # j /\ g.edges[i] = g.edges[j]
     /\ \E i \in 1 .. Len(g.edges) : g.edges[i].target \in AbsentIds
     /\ \E t \in DOMAIN run[1].incoming : run[1].incoming[t] = 0 /\ t \in AbsentIds

\* C35 as stated: every node_enter event and every final-state entry of a
\* run concerns an id of graph.nodes, also when an edge's target is absent
\* from graph.nodes.
C35_OnlyGraphNodes ==
  \A r \in Runs :
    Started(r) =>
      /\ Range(Enters(r)) \subseteq NodeIdSet(run[r].graph)
      /\ DOMAIN run[r].finalStates \subseteq NodeIdSet(run[r].graph)
      /\ Range(run[r].visited) \subseteq NodeIdSet(run[r].graph)

\* What the loop does with an id absent from graph.nodes once the sources
\* of all edges into it were visited: it announces the id, patches it as
\* skipped and keeps a final state for it.
C35_AbsentTargetSkipped ==
  \A r \in Runs : \A n \in Range(run[r].visited) \ NodeIdSet(run[r].graph) :
    /\ \E i \in 1 .. Len(run[r].graph.edges) : run[r].graph.edges[i].target = n
    /\ n \in DOMAIN run[r].finalStates => run[r].finalStates[n].status = "skipped"

\* The ids on a cycle of edges, and those reachable from one, ids absent
\* from graph.nodes included.
TaintedNamed(graph) ==
  LET k == Cardinality(NamedIds(graph))
      cyc == {n \in NamedIds(graph) : n \in Descendants(graph, {n}, k)}
  IN cyc \cup Descendants(graph, cyc, k)

\* C36 as stated: a node of graph.nodes is unvisited at the end of a run
\* only if it is on a cycle or reachable from one; an edge from an id absent
\* from graph.nodes does not keep its target from being visited.
C36_UnvisitedOnlyBehindCycle ==
  \A r \in Runs :
    Ended(r) =>
      NodeIdSet(run[r].graph) \ Range(run[r].visited) \subseteq TaintedNamed(run[r].graph)

\* What holds instead: a node is unvisited at the end only if it is behind a
\* cycle or behind an edge whose source is absent from graph.nodes.
C36_UnvisitedBehindCycleOrAbsent ==
  \A r \in Runs :
    Ended(r) =>
      LET g == run[r].graph
          srcs == {g.edges[i].source : i \in 1 .. Len(g.edges)} \ NodeIdSet(g)
          k == Cardinality(NamedIds(g))
      IN NodeIdSet(g) \ Range(run[r].visited)
           \subseteq TaintedNamed(g) \cup Descendants(g, srcs, k)

\* The positions in run r's session of the terminal patches of r for n.
TerminalsOf(r, n) ==
  {i \in 1 .. Len(log[run[r].sid]) :
     /\ IsPatchOf(log[run[r].sid][i], r, n)
     /\ log[run[r].sid][i].evt.status \in {"done", "error", "skipped"}}

\* The positions in run r's session of the done events of r.
DonePositions(r) ==
  {i \in 1 .. Len(log[run[r].sid]) :
     /\ log[run[r].sid][i].by = "dispatcher"
     /\ log[run[r].sid][i].run = r
     /\ log[run[r].sid][i].evt.type = "done"}

\* C37: when the done of a run is in the channel, every node the run
\* visited has a terminal patch (done, error or skipped) before it, LLM
\* nodes included.
C37_TerminalBeforeDone ==
  \A r \in Runs :
    Accepting(r) =>
      \A d \in DonePositions(r) : \A n \in Range(run[r].visited) :
        \E i \in TerminalsOf(r, n) : i < d

\* The same for the nodes that are not LLM nodes.
C37_ToolAndPlainTerminal ==
  \A r \in Runs :
    Accepting(r) =>
      \A d \in DonePositions(r) :
        \A n \in {m \in Range(run[r].visited) : ~isLLM(nodeOf(run[r].graph, m))} :
          \E i \in TerminalsOf(r, n) : i < d

\* The events consumer c's calls removed from session sid, in order.
TakenBy(c, sid) ==
  Flatten(SelectSeq(taken[sid], LAMBDA b : b.by = c))

\* C38 as stated: every event the stream reader removed from the channel
\* was forwarded to the client, whatever sits behind a done in the batch
\* and whenever the client disconnects.
C38_TakenIsForwarded ==
  \A c \in Consumers :
    reader[c].pc \notin {"idle", "rejected"} =>
      reader[c].out = frames(TakenBy(c, reader[c].sid))

\* What holds instead: the frames written are a prefix of what the reader
\* removed, and they differ only when a done was forwarded with events
\* behind it or the client had gone away.
C38_DroppedBehindDoneOrAbort ==
  \A c \in Consumers :
    LET rd == reader[c]
        all == frames(TakenBy(c, rd.sid))
    IN rd.pc \notin {"idle", "rejected"} =>
         /\ Len(rd.out) <= Len(all)
         /\ rd.out = SubSeq(all, 1, Len(rd.out))
         /\ rd.out # all =>
              \/ rd.aborted
              \/ rd.out # <<>> /\ rd.out[Len(rd.out)].json.type = "done"

(***************************************************************************)
(* Two created sessions and an id never created, used side by side         *)
(* (IsolationSpec).                                                        *)
(***************************************************************************)
IsolationSids == SessionIds \cup {StrayId}

IsolationNext ==
  \/ \E id \in SessionIds : createSession(id)
  \/ \E sid \in IsolationSids, e \in ProducerEvents :
       Produced < MaxEnqueued /\ produce(sid, e)
  \/ \E sid \in IsolationSids, max \in 1 .. MaxBatch : callDequeue(1, sid, max)
  \/ lpopStep(1)
  \/ dequeueReturns(1)

IsolationSpec == Init /\ [][IsolationNext]_vars

\* The queue of sid in the given stores.
QueueIn(kv, mem, sid) ==
  IF hasKV THEN kv[sid] ELSE IF sid \in DOMAIN mem THEN mem[sid] ELSE <<>>

\* The session ids whose queue a step changes.
Touched == {sid \in AllSids : QueueIn(kvQueue', SESSIONS', sid) # QueueIn(kvQueue, SESSIONS, sid)}

\* A step of enqueue or dequeueBatch changes no queue but that of its
\* session id, and a dequeueBatch step creates no session.
IsolatedStep ==
  /\ \A sid \in AllSids : log'[sid] # log[sid] => Touched \subseteq {sid}
  /\ \A c \in Consumers :
       deq'[c] # deq[c] =>
         /\ Touched \subseteq {IF deq[c].pc = "idle" THEN deq'[c].sid ELSE deq[c].sid}
         /\ created' = created
         /\ kvSession' = kvSession
         /\ DOMAIN SESSIONS' = DOMAIN SESSIONS

\* createSession returns an id that no caller has named, with an empty
\* queue, and changes no existing queue.
CreateStep ==
  \A id \in created' \ created :
    log[id] = <<>> =>
      /\ QueueIn(kvQueue', SESSIONS', id) = <<>>
      /\ Touched = {}

\* No dequeueBatch call on an id createSession never returned holds or has
\* returned an event.
UnknownYieldsNothing ==
  /\ taken[StrayId] = <<>>
  /\ \A c \in Consumers : deq[c].sid \notin created => deq[c].events = <<>>

\* C39 as stated: enqueue and dequeueBatch on one session leave every other
\* queue unchanged, createSession yields an empty queue and changes no other,
\* and dequeueBatch on an unknown id returns nothing and creates no session.
C39_SessionsIsolated ==
  /\ [][IsolatedStep /\ CreateStep]_vars
  /\ []UnknownYieldsNothing

\* The frame part on its own: it holds in both backends.
C39_FrameOnly == [][IsolatedStep /\ CreateStep]_vars

\* The last part under the in-process backend, where it holds.
C39_UnknownEmptyInMemory == ~hasKV => UnknownYieldsNothing

=============================================================================
